---- MODULE Spec2Model ----
(***************************************************************************)
(* Model of the SCM dashboard frontend (React single-page application).    *)
(*                                                                         *)
(*  - the business profile: BusinessInfoProvider, backed by the            *)
(*    localStorage key 'businessInfo', and the Settings form;              *)
(*  - the demand-forecasting page: its React state, the requests it has    *)
(*    in flight and the continuation each response resumes;                *)
(*  - the chart data derived from a forecast (weekly buckets, smoothing,   *)
(*    the festival bar series).                                            *)
(*                                                                         *)
(* Time is counted in days: the code works on millisecond timestamps of    *)
(* dates given with day precision, so 7*24*60*60*1000 ms is Week == 7 and  *)
(* the "- 1" (one millisecond) of the bucket end is one smallest unit.     *)
(* A JavaScript string is a sequence of atoms: a run of plain characters,  *)
(* or one of the two characters JSON escapes, '"' and '\'.                 *)
(***************************************************************************)
EXTENDS Integers, Sequences, FiniteSets, TLC

VARIABLES
    \* ---- business profile (BusinessInfoContext, Settings) ----
    localStorageBI,   \* localStorage['businessInfo']: JSON text, <<>> when absent
    businessInfo,     \* context state: Null or the profile object
    settingsOpen,     \* the Settings page is mounted
    form,             \* Settings: form state
    saved,            \* Settings: "Business info saved!" flag
    \* ---- demand-forecasting page ----
    effectsRan,       \* the mount effects of the page have run
    forecastPeriod, forecast, loading, error, bootstrapped, history,
    overlayLoading, selectedId,
    lastForecastId,   \* sessionStorage['lastForecastId'], NoItem when absent
    dfPeriod, dfLoading,          \* Navbar state
    inflight,         \* requests issued and not yet answered
    nextSeq,          \* number of forecast loads issued so far (issue order)
    shownSeq,         \* issue number of the load whose response is displayed
    appliedSeq,       \* largest issue number among the responses applied
    \* ---- chart data derived at render ----
    view,
    \* ---- WeatherNews ----
    wnOrigin, wnDestination,      \* props origin, destination
    wnOnError,        \* the prop onError is given
    wnMounted,        \* the mount effect has run
    wnLoading, wnWeather, wnNews, wnError,
    wnFetches,        \* the calls of fetchData, each with its two requests
    wnOnErrorCalls,   \* the messages onError has been called with, in order
    \* ---- the other components: one record of state each ----
    mounted,          \* the component that is mounted and acts in this run
    logistics,        \* Logistics page: shipments, loading, filters, analytics
    routeTool,        \* RouteOptimizer / PreciseRouteAnalysis(Section): form, result
    csv,              \* Export as CSV: the exported records and the text produced
    nav,              \* AppContent and Content: the selected and the rendered page
    shipmentForm,     \* NewShipmentForm: the form, its flags and its requests
    reports,          \* Reports: the report type, the report data and its requests
    mapSelector       \* MapSelector: points, names, weather, the handler in flight

profileVars == <<localStorageBI, businessInfo, settingsOpen, form, saved>>
pageVars == <<effectsRan, forecastPeriod, forecast, loading, error, bootstrapped,
              history, overlayLoading, selectedId, lastForecastId, dfPeriod,
              dfLoading, inflight, nextSeq, shownSeq, appliedSeq>>
wnVars == <<wnOrigin, wnDestination, wnOnError, wnMounted, wnLoading, wnWeather,
            wnNews, wnError, wnFetches, wnOnErrorCalls>>
\* the state of the components outside the forecast page and the profile
compVars == <<wnVars, mounted, logistics, routeTool, csv, nav, shipmentForm, reports, mapSelector>>
vars == <<profileVars, pageVars, view, compVars>>

\* JavaScript null / undefined for object-valued state
Null == [null |-> TRUE]

(***************************************************************************)
(* JSON text of the profile                                                *)
(***************************************************************************)
DQ == "\""
BS == "\\"

\* keys of the Settings form, in the order the form state lists them
FieldOrder == <<"businessType", "businessScale", "state", "location", "currentSales">>
Fields == {FieldOrder[i] : i \in 1..Len(FieldOrder)}

\* a plausible slip: the string is quoted but its characters are not escaped
EscapeStrNone(s) == s

RECURSIVE EscapeStr(_)
EscapeStr(s) ==
    IF s = <<>> THEN <<>>
    ELSE (IF Head(s) \in {DQ, BS} THEN <<BS, Head(s)>> ELSE <<Head(s)>>)
         \o EscapeStr(Tail(s))

QuoteStr(s) == <<DQ>> \o EscapeStr(s) \o <<DQ>>

RECURSIVE StringifyMembers(_, _, _)
StringifyMembers(obj, i, first) ==
    IF i > Len(FieldOrder) THEN <<>>
    ELSE IF FieldOrder[i] \in DOMAIN obj
         THEN (IF first THEN <<>> ELSE <<",">>)
              \o QuoteStr(<<FieldOrder[i]>>) \o <<":">> \o QuoteStr(obj[FieldOrder[i]])
              \o StringifyMembers(obj, i + 1, FALSE)
         ELSE StringifyMembers(obj, i + 1, first)

JSONstringify(v) ==
    IF v = Null THEN <<"null">>
    ELSE <<"{">> \o StringifyMembers(v, 1, TRUE) \o <<"}">>

SyntaxError == [syntaxError |-> TRUE]

\* reads the characters of a string literal whose opening quote is at i - 1
RECURSIVE ReadChars(_, _, _)
ReadChars(text, i, acc) ==
    IF i > Len(text) THEN SyntaxError
    ELSE IF text[i] = DQ THEN [val |-> acc, next |-> i + 1]
    ELSE IF text[i] = BS
         THEN IF i + 1 > Len(text) THEN SyntaxError
              ELSE ReadChars(text, i + 2, Append(acc, text[i + 1]))
    ELSE ReadChars(text, i + 1, Append(acc, text[i]))

ReadString(text, i) ==
    IF i > Len(text) \/ text[i] # DQ THEN SyntaxError ELSE ReadChars(text, i + 1, <<>>)

\* members of an object, the cursor i being at the opening quote of a key
RECURSIVE ParseMembers(_, _, _)
ParseMembers(text, i, acc) ==
    LET k == ReadString(text, i) IN
    IF k = SyntaxError \/ Len(k.val) # 1 THEN SyntaxError
    ELSE IF k.next > Len(text) \/ text[k.next] # ":" THEN SyntaxError
    ELSE LET v == ReadString(text, k.next + 1) IN
         IF v = SyntaxError \/ v.next > Len(text) THEN SyntaxError
         ELSE LET obj == (k.val[1] :> v.val) @@ acc IN
              IF text[v.next] = "}"
              THEN (IF v.next = Len(text) THEN obj ELSE SyntaxError)
              ELSE IF text[v.next] = ","
              THEN ParseMembers(text, v.next + 1, obj)
              ELSE SyntaxError

JSONparse(text) ==
    IF text = <<"null">> THEN Null
    ELSE IF Len(text) < 2 \/ text[1] # "{" THEN SyntaxError
    ELSE IF text[2] = "}" THEN (IF Len(text) = 2 THEN <<>> ELSE SyntaxError)
    ELSE ParseMembers(text, 2, <<>>)

(***************************************************************************)
(* Business profile: BusinessInfoProvider and the Settings form            *)
(***************************************************************************)
\* useState initialiser of BusinessInfoProvider
BusinessInfoInit(stored) == IF stored # <<>> THEN JSONparse(stored) ELSE Null

\* initial Settings form when no profile is saved
EmptyForm == [f \in Fields |-> <<>>]

\* values the inputs of the form can deliver (the select options are sampled;
\* the state list comes from the backend and may hold any string)
businessTypes == {<<"Grocery Store">>, <<"Food & Beverage">>}
businessScales == {<<"Small">>}
locations == {<<"Urban">>}
StateNames == {<<"Goa">>, <<"N", DQ, "S">>, <<BS>>}
SalesInputs == {<<>>, <<"100">>}

InputValues(name) ==
    CASE name = "businessType" -> businessTypes
      [] name = "businessScale" -> businessScales
      [] name = "state" -> StateNames
      [] name = "location" -> locations
      [] name = "currentSales" -> SalesInputs

\* Settings is mounted: its form starts from the saved profile, if any
OpenSettings ==
    /\ ~settingsOpen
    /\ settingsOpen' = TRUE
    /\ form' = IF businessInfo # Null THEN businessInfo ELSE EmptyForm
    /\ saved' = FALSE
    /\ UNCHANGED <<localStorageBI, businessInfo, pageVars, view, compVars>>

\* Settings is unmounted; its state is discarded
CloseSettings ==
    /\ settingsOpen
    /\ settingsOpen' = FALSE
    /\ form' = EmptyForm
    /\ saved' = FALSE
    /\ UNCHANGED <<localStorageBI, businessInfo, pageVars, view, compVars>>

\* a form that saves on every keystroke
HandleChangeSaving(name, value) ==
    /\ settingsOpen
    /\ form' = (name :> value) @@ form
    /\ saved' = FALSE
    /\ businessInfo' = form'
    /\ localStorageBI' = JSONstringify(form')
    /\ UNCHANGED <<settingsOpen, pageVars, view, compVars>>

\* Settings.handleChange
HandleChange(name, value) ==
    /\ settingsOpen
    /\ form' = (name :> value) @@ form
    /\ saved' = FALSE
    /\ UNCHANGED <<localStorageBI, businessInfo, settingsOpen, pageVars, view, compVars>>

\* every input of the form is 'required': the browser submits only a form
\* whose fields are all non-empty
FormValid == \A f \in Fields : f \in DOMAIN form /\ form[f] # <<>>

\* handleSubmit -> saveBusinessInfo(form); setSaved(true)
HandleSubmit ==
    /\ settingsOpen
    /\ FormValid
    /\ businessInfo' = form
    /\ localStorageBI' = JSONstringify(form)
    /\ saved' = TRUE
    /\ UNCHANGED <<settingsOpen, form, pageVars, view, compVars>>

\* the app is reloaded: every component state is rebuilt, the storage stays.
\* AppContent opens Settings when no profile is stored.
Reload ==
    /\ businessInfo' = BusinessInfoInit(localStorageBI)
    /\ settingsOpen' = (businessInfo' = Null)
    /\ form' = EmptyForm
    /\ saved' = FALSE
    /\ UNCHANGED <<localStorageBI, pageVars, view, compVars>>

(***************************************************************************)
(* Forecast objects and the chart data derived from them                   *)
(***************************************************************************)
\* a field that the backend's JSON does not have
Undefined == [undefined |-> TRUE]

\* a JSON value used as a number: a number, or anything Number() maps to NaN
Num(n) == [isnum |-> TRUE, v |-> n]
NotANumber == [isnum |-> FALSE, v |-> 0]

\* Number(x) || 0
NumberOr0(x) == IF x.isnum THEN x.v ELSE 0

\* (d?.chart || [])
Chart(d) ==
    IF d = Undefined THEN <<>>
    ELSE IF "chart" \notin DOMAIN d THEN <<>>
    ELSE d.chart

\* 7 * 24 * 60 * 60 * 1000 ms
Week == 7

\* the sequences over S of length up to n
SeqsUpTo(S, n) == UNION {[1..k -> S] : k \in 0..n}

Min2(a, b) == IF a < b THEN a ELSE b
Max2(a, b) == IF a > b THEN a ELSE b

\* a plausible slip: only the upper limit is applied
ClampUpperOnly(v) == Min2(100, v)

\* Math.max(0, Math.min(100, v))
Clamp(v) == Max2(0, Min2(100, v))

\* while (cursor <= end) { weeks.push(cursor); cursor += 7 days }
RECURSIVE WeeksFrom(_, _)
WeeksFrom(cursor, end) ==
    IF cursor <= end THEN <<cursor>> \o WeeksFrom(cursor + Week, end) ELSE <<>>

\* a plausible slip: the last overlapping season wins instead of the largest
RECURSIVE MaxSurgeLast(_, _, _, _)
MaxSurgeLast(seasons, wStart, wEnd, maxSurge) ==
    IF seasons = <<>> THEN maxSurge
    ELSE LET s == Head(seasons)
             overlap == ~(s.end < wStart \/ s.start > wEnd) IN
         MaxSurgeLast(Tail(seasons), wStart, wEnd,
                      IF overlap THEN NumberOr0(s.demand_surge) ELSE maxSurge)

\* for (const s of seasons) if (overlap) maxSurge = Math.max(maxSurge, s.surge)
RECURSIVE MaxSurge(_, _, _, _)
MaxSurge(seasons, wStart, wEnd, maxSurge) ==
    IF seasons = <<>> THEN maxSurge
    ELSE LET s == Head(seasons)
             overlap == ~(s.end < wStart \/ s.start > wEnd) IN
         MaxSurge(Tail(seasons), wStart, wEnd,
                  IF overlap THEN Max2(maxSurge, NumberOr0(s.demand_surge)) ELSE maxSurge)

\* a plausible slip: the largest event of the week instead of the sum
RECURSIVE FestSumMax(_, _, _, _)
FestSumMax(festivals, wStart, wEnd, sum) ==
    IF festivals = <<>> THEN sum
    ELSE LET f == Head(festivals) IN
         FestSumMax(Tail(festivals), wStart, wEnd,
                    IF f.date >= wStart /\ f.date <= wEnd
                    THEN Max2(sum, NumberOr0(f.demand_increase)) ELSE sum)

\* for (const f of festivals) if (f.date >= wStart && f.date <= wEnd) sum += f.inc
RECURSIVE FestSum(_, _, _, _)
FestSum(festivals, wStart, wEnd, sum) ==
    IF festivals = <<>> THEN sum
    ELSE LET f == Head(festivals) IN
         FestSum(Tail(festivals), wStart, wEnd,
                 IF f.date >= wStart /\ f.date <= wEnd
                 THEN sum + NumberOr0(f.demand_increase) ELSE sum)

\* the local const seasonVals (before smoothing)
seasonVals(weeks, seasons) ==
    [i \in 1..Len(weeks) |->
        Clamp(MaxSurge(seasons, weeks[i], weeks[i] + Week - 1, 0))]

\* a plausible slip: the end of a week is computed without the - 1, so that a
\* week shares its last instant with the next one
festValsRawClosedWeek(weeks, festivals) ==
    [i \in 1..Len(weeks) |-> FestSum(festivals, weeks[i], weeks[i] + Week, 0)]

festValsRaw(weeks, festivals) ==
    [i \in 1..Len(weeks) |-> FestSum(festivals, weeks[i], weeks[i] + Week - 1, 0)]

\* the local const festVals (before smoothing)
festVals(weeks, festivals) ==
    LET raw == festValsRaw(weeks, festivals) IN
    [i \in 1..Len(weeks) |-> Clamp(raw[i])]

\* a quotient of the smoothing: the fraction num / den, den > 0
Frac(n, d) == [num |-> n, den |-> d]
FracLeq(a, b) == a.num * b.den <= b.num * a.den
FracMin(a, b) == IF FracLeq(a, b) THEN a ELSE b
FracEq(a, b) == a.num * b.den = b.num * a.den

\* for (let j = lo; j <= hi; j++) if (j >= 0 && j < arr.length) { sum += arr[j]; cnt++ }
\* (indices are 1-based here: the test is 1 <= j <= Len(arr))
RECURSIVE SmoothLoop(_, _, _, _, _)
SmoothLoop(arr, j, hi, sum, cnt) ==
    IF j > hi THEN [sum |-> sum, cnt |-> cnt]
    ELSE IF j >= 1 /\ j <= Len(arr)
         THEN SmoothLoop(arr, j + 1, hi, sum + arr[j], cnt + 1)
         ELSE SmoothLoop(arr, j + 1, hi, sum, cnt)

\* a plausible slip: the sum is always divided by the window
smoothUntruncated(arr, window) ==
    LET half == window \div 2 IN
    [i \in 1..Len(arr) |->
        LET acc == SmoothLoop(arr, i - half, i + half, 0, 0) IN
        IF acc.cnt # 0 THEN Frac(acc.sum, window) ELSE Frac(arr[i], 1)]

\* smooth(arr, window); each value is returned as the fraction sum / cnt
smooth(arr, window) ==
    LET half == window \div 2 IN
    [i \in 1..Len(arr) |->
        LET acc == SmoothLoop(arr, i - half, i + half, 0, 0) IN
        IF acc.cnt # 0 THEN Frac(acc.sum, acc.cnt) ELSE Frac(arr[i], 1)]

\* the body of the memo coordinationSeries once its guards have passed
WeeklySeries(f) ==
    LET weeks == WeeksFrom(f.forecast_start, f.forecast_end)
        seasons == Chart(f.seasonal_demands)
        festivals == Chart(f.festival_demands)
        seasonSm == smooth(seasonVals(weeks, seasons), 3)
        festSm == smooth(festVals(weeks, festivals), 3) IN
    [labels |-> weeks,
     seasonVals |-> seasonSm,
     festVals |-> festSm,
     coordIndex |-> [i \in 1..Len(weeks) |-> FracMin(seasonSm[i], festSm[i])]]

\* a plausible slip: the guard admits an empty window
coordinationSeriesLeq(f) ==
    IF f = Null THEN Null
    ELSE IF ~(f.forecast_start <= f.forecast_end) THEN Null
    ELSE WeeklySeries(f)

\* a plausible slip: the derivation gives up when a list is missing or empty
coordinationSeriesStrict(f) ==
    IF f = Null THEN Null
    ELSE IF ~(f.forecast_start < f.forecast_end) THEN Null
    ELSE IF Chart(f.seasonal_demands) = <<>> \/ Chart(f.festival_demands) = <<>> THEN Null
    ELSE WeeklySeries(f)

\* the memo coordinationSeries of the page
coordinationSeries(f) ==
    IF f = Null THEN Null
    ELSE IF ~(f.forecast_start < f.forecast_end) THEN Null
    ELSE WeeklySeries(f)

\* the memo timelineData of the page (its date range is not modelled)
timelineData(f) ==
    IF f = Null THEN Null
    ELSE [seasons |-> [i \in 1..Len(Chart(f.seasonal_demands)) |->
                          [start |-> Chart(f.seasonal_demands)[i].start,
                           end |-> Chart(f.seasonal_demands)[i].end]],
          festivals |-> [i \in 1..Len(Chart(f.festival_demands)) |->
                          [date |-> Chart(f.festival_demands)[i].date,
                           inc |-> NumberOr0(Chart(f.festival_demands)[i].demand_increase)]]]

\* festivalItems and the data of the Bar chart
festivalItems(f) == IF f = Null THEN <<>> ELSE Chart(f.festival_demands)
\* a plausible slip: the bars are clamped like the weekly series
BarDataClamped(f) ==
    [i \in 1..Len(festivalItems(f)) |-> Num(Clamp(NumberOr0(festivalItems(f)[i].demand_increase)))]

BarData(f) == [i \in 1..Len(festivalItems(f)) |-> festivalItems(f)[i].demand_increase]
BarLabels(f) == [i \in 1..Len(festivalItems(f)) |-> festivalItems(f)[i].festival]


(***************************************************************************)
(* Demand-forecasting page: state, requests and their continuations        *)
(***************************************************************************)
\* null of the string-valued state (error) and an absent storage item /
\* the initial selectedId: the empty string is as falsy as null in every test
\* the code makes
NoError == "(null)"
NoItem == ""

\* bounds of the model
MaxLoads == 3
MaxId == 2

\* String(id)
IdStr(n) ==
    CASE n = 0 -> "0" [] n = 1 -> "1" [] n = 2 -> "2" [] n = 3 -> "3" [] n = 4 -> "4"
      [] n = 5 -> "5" [] n = 6 -> "6" [] n = 7 -> "7" [] n = 8 -> "8" [] n = 9 -> "9"

\* options of the navbar's period select that the model uses (6 is the default)
DefaultPeriod == 6
Periods == {3, DefaultPeriod}

\* messages a failing backend or network can deliver ("" : none)
Messages == {"", "Server busy"}

\* the saved profile the page is opened with
SampleProfile ==
    [businessType |-> <<"Grocery Store">>, businessScale |-> <<"Small">>,
     state |-> <<"Goa">>, location |-> <<"Urban">>, currentSales |-> <<"100">>]

\* forecasts the backend answers with on this page
ForecastA ==
    [forecast_start |-> 1, forecast_end |-> 15,
     festival_demands |-> [chart |-> <<[festival |-> "Diwali", date |-> 8, demand_increase |-> Num(150)]>>],
     seasonal_demands |-> [chart |-> <<[season |-> "Winter", start |-> 8, end |-> 14, demand_surge |-> Num(80)]>>]]
ForecastB ==
    [forecast_start |-> 1, forecast_end |-> 8,
     festival_demands |-> Undefined,
     seasonal_demands |-> [chart |-> <<>>]]
PageForecasts == {ForecastA, ForecastB}

\* history lists of the backend: entries {id, forecast_date}, in any order
HistA == [id |-> 1, forecast_date |-> 10]
HistB == [id |-> 2, forecast_date |-> 10]
BackendHistories ==
    {<<>>, <<HistA, HistB>>, <<[id |-> 2, forecast_date |-> 5], HistA>>}

\* the comparator of the history sort: negative when a goes first
HistoryCompare(a, b) ==
    LET ta == a.forecast_date
        tb == b.forecast_date IN
    IF tb # ta THEN tb - ta ELSE b.id - a.id

RECURSIVE InsertSorted(_, _)
InsertSorted(sorted, x) ==
    IF sorted = <<>> THEN <<x>>
    ELSE IF HistoryCompare(x, Head(sorted)) < 0 THEN <<x>> \o sorted
    ELSE <<Head(sorted)>> \o InsertSorted(Tail(sorted), x)

\* [...items].sort(comparator)
RECURSIVE SortHistory(_)
SortHistory(items) ==
    IF items = <<>> THEN <<>>
    ELSE InsertSorted(SortHistory(SubSeq(items, 1, Len(items) - 1)), items[Len(items)])

Request(seq, kind, period, id, boot, body) ==
    [seq |-> seq, kind |-> kind, period |-> period, id |-> id, boot |-> boot, body |-> body]

\* what the render that created a handler had in scope
Closure(f, p, info) == [forecast |-> f, forecastPeriod |-> p, businessInfo |-> info]

\* the handlers registered by the mount effect keep the first render's scope
MountClosure == Closure(Null, DefaultPeriod, businessInfo)

\* handleForecast(overridePeriod) up to its first await; 0 stands for an
\* undefined overridePeriod
HandleForecast(overridePeriod, c) ==
    LET period == IF overridePeriod # 0 THEN overridePeriod ELSE c.forecastPeriod
        hadForecast == c.forecast # Null IN
    /\ nextSeq <= MaxLoads
    /\ forecastPeriod' = IF overridePeriod # 0 THEN overridePeriod ELSE forecastPeriod
    /\ overlayLoading' = IF hadForecast THEN TRUE ELSE overlayLoading
    /\ loading' = ~hadForecast
    /\ error' = NoError
    /\ dfLoading' = TRUE
    /\ inflight' = inflight \cup
          {Request(nextSeq, "forecast", period, NoItem, FALSE,
                   [profile |-> c.businessInfo, forecastPeriod |-> period])}
    /\ nextSeq' = nextSeq + 1
    /\ UNCHANGED <<effectsRan, forecast, bootstrapped, history, selectedId,
                   lastForecastId, dfPeriod, shownSeq, appliedSeq, profileVars, view, compVars>>

\* Navbar: the period select
SetDfPeriod(p) ==
    /\ p # dfPeriod
    /\ dfPeriod' = p
    /\ UNCHANGED <<effectsRan, forecastPeriod, forecast, loading, error, bootstrapped,
                   history, overlayLoading, selectedId, lastForecastId, dfLoading,
                   inflight, nextSeq, shownSeq, appliedSeq, profileVars, view, compVars>>

\* Navbar: Generate Forecast -> 'demandForecast:trigger' -> onTrigger
GenerateClick ==
    /\ effectsRan
    /\ ~dfLoading
    /\ HandleForecast(dfPeriod, MountClosure)

\* the Retry Forecast button of the "No forecast yet" panel
RetryClick ==
    /\ effectsRan
    /\ businessInfo # Null
    /\ ~loading /\ forecast = Null
    /\ HandleForecast(forecastPeriod, Closure(forecast, forecastPeriod, businessInfo))

\* the finally block of handleForecast
FinishForecast ==
    /\ loading' = FALSE
    /\ overlayLoading' = FALSE
    /\ dfLoading' = FALSE

\* a plausible variant: responses carry a sequence check, and the forecast of
\* a superseded request is dropped
ForecastOkSequenced(r, f, fid) ==
    /\ r \in inflight /\ r.kind = "forecast"
    /\ forecast' = IF r.seq > appliedSeq THEN f ELSE forecast
    /\ lastForecastId' = IF fid # 0 /\ r.seq > appliedSeq THEN IdStr(fid) ELSE lastForecastId
    /\ inflight' = (inflight \ {r}) \cup
          {[r EXCEPT !.kind = "fcHistory", !.id = IF fid # 0 THEN IdStr(fid) ELSE NoItem]}
    /\ shownSeq' = IF r.seq > appliedSeq THEN r.seq ELSE shownSeq
    /\ appliedSeq' = Max2(appliedSeq, r.seq)
    /\ UNCHANGED <<effectsRan, forecastPeriod, loading, error, bootstrapped, history,
                   overlayLoading, selectedId, dfPeriod, dfLoading, nextSeq,
                   profileVars, view, compVars>>

\* POST /api/demand/forecast answers { success: true, forecast, forecastId }
\* (fid = 0: no forecastId); the history refresh is requested, with result
\* (and its forecastId, kept in the id of the request) still in scope
ForecastOk(r, f, fid) ==
    /\ r \in inflight /\ r.kind = "forecast"
    /\ forecast' = f
    /\ lastForecastId' = IF fid # 0 THEN IdStr(fid) ELSE lastForecastId
    /\ inflight' = (inflight \ {r}) \cup
          {[r EXCEPT !.kind = "fcHistory", !.id = IF fid # 0 THEN IdStr(fid) ELSE NoItem]}
    /\ shownSeq' = r.seq
    /\ appliedSeq' = Max2(appliedSeq, r.seq)
    /\ UNCHANGED <<effectsRan, forecastPeriod, loading, error, bootstrapped, history,
                   overlayLoading, selectedId, dfPeriod, dfLoading, nextSeq,
                   profileVars, view, compVars>>

\* a plausible slip: the backend's error text is shown without a fallback
ForecastFailNoFallback(r, msg) ==
    /\ r \in inflight /\ r.kind = "forecast"
    /\ error' = msg
    /\ FinishForecast
    /\ inflight' = inflight \ {r}
    /\ UNCHANGED <<effectsRan, forecastPeriod, forecast, bootstrapped, history,
                   selectedId, lastForecastId, dfPeriod, nextSeq, shownSeq,
                   appliedSeq, profileVars, view, compVars>>

\* ... answers with a falsy success flag and the error text msg
ForecastFail(r, msg) ==
    /\ r \in inflight /\ r.kind = "forecast"
    /\ error' = IF msg # "" THEN msg ELSE "Unknown error"
    /\ FinishForecast
    /\ inflight' = inflight \ {r}
    /\ UNCHANGED <<effectsRan, forecastPeriod, forecast, bootstrapped, history,
                   selectedId, lastForecastId, dfPeriod, nextSeq, shownSeq,
                   appliedSeq, profileVars, view, compVars>>

\* a plausible slip: the flags are reset after the try block, not in a
\* finally, so that a rejection leaves them set
ForecastRejectNoFinally(r, msg) ==
    /\ r \in inflight /\ r.kind = "forecast"
    /\ error' = IF msg # "" THEN msg ELSE "Network error"
    /\ inflight' = inflight \ {r}
    /\ UNCHANGED <<effectsRan, forecastPeriod, forecast, bootstrapped, history,
                   selectedId, lastForecastId, dfPeriod, nextSeq, shownSeq,
                   appliedSeq, loading, overlayLoading, dfLoading, profileVars, view, compVars>>

\* the fetch rejects, or the body is not JSON: the catch block
ForecastReject(r, msg) ==
    /\ r \in inflight /\ r.kind = "forecast"
    /\ error' = IF msg # "" THEN msg ELSE "Network error"
    /\ FinishForecast
    /\ inflight' = inflight \ {r}
    /\ UNCHANGED <<effectsRan, forecastPeriod, forecast, bootstrapped, history,
                   selectedId, lastForecastId, dfPeriod, nextSeq, shownSeq,
                   appliedSeq, profileVars, view, compVars>>

\* the history refresh of handleForecast is answered: ok = FALSE when the
\* fetch rejects (ignored); items is [] when the body has no history array
ForecastHistoryDone(r, ok, items) ==
    /\ r \in inflight /\ r.kind = "fcHistory"
    /\ history' = IF ok THEN SortHistory(items) ELSE history
    /\ FinishForecast
    /\ inflight' = inflight \ {r}
    /\ UNCHANGED <<effectsRan, forecastPeriod, forecast, error, bootstrapped,
                   selectedId, lastForecastId, dfPeriod, nextSeq, shownSeq,
                   appliedSeq, profileVars, view, compVars>>

\* loadForecastById(id) up to its await; id is the text of the id (never
\* empty here: the callers pass a truthy id)
LoadForecastById(id, seq, boot) ==
    /\ selectedId' = id
    /\ overlayLoading' = TRUE
    /\ inflight' = {q \in inflight : q.seq # seq \/ q.kind # "bootHistory"}
                   \cup {Request(seq, "byId", 0, id, boot, Null)}

\* the recent-forecasts select (rendered while a forecast is displayed)
SelectHistory(id) ==
    /\ effectsRan
    /\ businessInfo # Null /\ forecast # Null
    /\ \E i \in 1..Len(history) : IdStr(history[i].id) = id
    /\ id # selectedId
    /\ nextSeq <= MaxLoads
    /\ LoadForecastById(id, nextSeq, FALSE)
    /\ nextSeq' = nextSeq + 1
    /\ UNCHANGED <<effectsRan, forecastPeriod, forecast, loading, error, bootstrapped,
                   history, lastForecastId, dfPeriod, dfLoading, shownSeq, appliedSeq,
                   profileVars, view, compVars>>

\* the finally blocks that run when a load by id ends: its own, and the one of
\* loadMostRecentForecast when the bootstrap awaited it
FinishById(r) ==
    /\ overlayLoading' = FALSE
    /\ bootstrapped' = IF r.boot THEN TRUE ELSE bootstrapped
    /\ loading' = IF r.boot THEN FALSE ELSE loading

\* a plausible slip: the loaded forecast is shown but not remembered
ByIdOkNotStored(r, f) ==
    /\ r \in inflight /\ r.kind = "byId"
    /\ forecast' = f
    /\ FinishById(r)
    /\ inflight' = inflight \ {r}
    /\ shownSeq' = r.seq
    /\ appliedSeq' = Max2(appliedSeq, r.seq)
    /\ UNCHANGED <<effectsRan, forecastPeriod, error, history, selectedId, dfPeriod,
                   dfLoading, nextSeq, lastForecastId, profileVars, view, compVars>>

\* GET /api/demand/forecast/{id} answers { success: true, forecast }
ByIdOk(r, f) ==
    /\ r \in inflight /\ r.kind = "byId"
    /\ forecast' = f
    /\ lastForecastId' = r.id
    /\ FinishById(r)
    /\ inflight' = inflight \ {r}
    /\ shownSeq' = r.seq
    /\ appliedSeq' = Max2(appliedSeq, r.seq)
    /\ UNCHANGED <<effectsRan, forecastPeriod, error, history, selectedId, dfPeriod,
                   dfLoading, nextSeq, profileVars, view, compVars>>

\* ... answers without success or forecast, or the fetch rejects: ignored
ByIdFail(r) ==
    /\ r \in inflight /\ r.kind = "byId"
    /\ FinishById(r)
    /\ inflight' = inflight \ {r}
    /\ UNCHANGED <<effectsRan, forecastPeriod, forecast, error, history, selectedId,
                   lastForecastId, dfPeriod, dfLoading, nextSeq, shownSeq, appliedSeq,
                   profileVars, view, compVars>>

\* mount effect: loadMostRecentForecast up to its first await. The closure is
\* the first render's (bootstrapped, forecast and loading are all falsy), so
\* the early return is never taken; the trigger listener is registered.
LoadMostRecentForecast ==
    /\ ~effectsRan
    /\ effectsRan' = TRUE
    /\ loading' = TRUE
    /\ error' = NoError
    /\ inflight' = inflight \cup {Request(nextSeq, "bootHistory", 0, NoItem, TRUE, Null)}
    /\ nextSeq' = nextSeq + 1
    /\ UNCHANGED <<forecastPeriod, forecast, bootstrapped, history, overlayLoading,
                   selectedId, lastForecastId, dfPeriod, dfLoading, shownSeq,
                   appliedSeq, profileVars, view, compVars>>

\* a plausible slip: the most recent entry is preferred to the stored id
ToLoadIdRecentFirst(sorted) ==
    IF sorted # <<>> /\ sorted[1].id # 0 THEN IdStr(sorted[1].id)
    ELSE lastForecastId

\* preferredId || (last && last.id), as text; NoItem when there is none
ToLoadId(sorted) ==
    IF lastForecastId # NoItem THEN lastForecastId
    ELSE IF sorted # <<>> /\ sorted[1].id # 0 THEN IdStr(sorted[1].id)
    ELSE NoItem

\* the history request of the bootstrap is answered with a list (items is []
\* when the body has no history array)
BootHistoryOk(r, items) ==
    LET sorted == SortHistory(items)
        toLoadId == ToLoadId(sorted) IN
    /\ r \in inflight /\ r.kind = "bootHistory"
    /\ history' = sorted
    /\ IF toLoadId # NoItem
       THEN /\ LoadForecastById(toLoadId, r.seq, TRUE)
            /\ UNCHANGED <<bootstrapped, loading>>
       ELSE /\ bootstrapped' = TRUE
            /\ loading' = FALSE
            /\ inflight' = inflight \ {r}
            /\ UNCHANGED <<selectedId, overlayLoading>>
    /\ UNCHANGED <<effectsRan, forecastPeriod, forecast, error, lastForecastId,
                   dfPeriod, dfLoading, nextSeq, shownSeq, appliedSeq, profileVars, view, compVars>>

\* the history fetch of the bootstrap rejects: ignored
BootHistoryReject(r) ==
    /\ r \in inflight /\ r.kind = "bootHistory"
    /\ bootstrapped' = TRUE
    /\ loading' = FALSE
    /\ inflight' = inflight \ {r}
    /\ UNCHANGED <<effectsRan, forecastPeriod, forecast, error, history, overlayLoading,
                   selectedId, lastForecastId, dfPeriod, dfLoading, nextSeq, shownSeq,
                   appliedSeq, profileVars, view, compVars>>

(***************************************************************************)
(* Render of the page                                                      *)
(***************************************************************************)
NotRendered == [rendered |-> FALSE]

\* what the component returns for the current state
Render ==
    /\ view' =
         IF businessInfo = Null
         THEN [rendered |-> TRUE, forecastShown |-> FALSE, timelineShown |-> FALSE,
               coordinationSeries |-> Null, barData |-> <<>>, barLabels |-> <<>>]
         ELSE [rendered |-> TRUE,
               forecastShown |-> forecast # Null,
               timelineShown |-> /\ forecast # Null
                                 /\ timelineData(forecast) # Null
                                 /\ coordinationSeries(forecast) # Null,
               coordinationSeries |-> coordinationSeries(forecast),
               barData |-> BarData(forecast),
               barLabels |-> BarLabels(forecast)]
    /\ UNCHANGED <<profileVars, pageVars, compVars>>

(***************************************************************************)
(* WeatherNews: two parallel requests joined by Promise.all                *)
(***************************************************************************)
MaxFetches == 2

\* a request that has not been answered yet / that was rejected with the
\* message err.response?.data?.message ("" when there is none)
Pending == [pending |-> TRUE]
Rejected(msg) == [rejected |-> TRUE, message |-> msg]

\* bodies the two endpoints answer with
ResponseData(which) ==
    IF which = "weather" THEN {[condition |-> "Clear"], [condition |-> "Rain"]}
    ELSE {[headline |-> "Road closed"]}

\* places the parent passes as origin and destination ("" : none yet)
Places == {"", "Pune"}

\* the useState initial values of WeatherNews, mounted with the given props
WeatherNewsInit(origin, destination, onError) ==
    /\ wnOrigin = origin /\ wnDestination = destination /\ wnOnError = onError
    /\ wnMounted = FALSE
    /\ wnLoading = FALSE /\ wnWeather = Null /\ wnNews = Null /\ wnError = NoError
    /\ wnFetches = {}
    /\ wnOnErrorCalls = <<>>

\* useEffect(..., [origin, destination]) for the props o, d:
\* if (origin && destination) fetchData(), itself up to its await
WnEffect(o, d) ==
    IF o # "" /\ d # ""
    THEN /\ Cardinality(wnFetches) < MaxFetches
         /\ wnLoading' = TRUE
         /\ wnError' = NoError
         /\ wnFetches' = wnFetches \cup
               {[seq |-> Cardinality(wnFetches) + 1, origin |-> o, destination |-> d,
                 weather |-> Pending, news |-> Pending, settled |-> FALSE]}
    ELSE UNCHANGED <<wnLoading, wnError, wnFetches>>

\* the effect of the first render
WnMount ==
    /\ mounted = "WeatherNews"
    /\ ~wnMounted
    /\ wnMounted' = TRUE
    /\ WnEffect(wnOrigin, wnDestination)
    /\ UNCHANGED <<wnOrigin, wnDestination, wnOnError, wnWeather, wnNews, wnOnErrorCalls>>
    /\ UNCHANGED <<profileVars, pageVars, view, mounted, logistics, routeTool, csv, nav, shipmentForm, reports, mapSelector>>

\* the parent renders the component with other props; the effect runs again
WnSetRoute(o, d) ==
    /\ wnMounted
    /\ <<o, d>> # <<wnOrigin, wnDestination>>
    /\ wnOrigin' = o /\ wnDestination' = d
    /\ WnEffect(o, d)
    /\ UNCHANGED <<wnOnError, wnMounted, wnWeather, wnNews, wnOnErrorCalls>>
    /\ UNCHANGED <<profileVars, pageVars, view, mounted, logistics, routeTool, csv, nav, shipmentForm, reports, mapSelector>>

\* a plausible slip: the two requests are awaited one by one and each state is
\* set as soon as its response is there
WnResolveEager(r, which, data) ==
    LET r2 == [r EXCEPT ![which] = data]
        done == r2.weather \in ResponseData("weather") /\ r2.news \in ResponseData("news") IN
    /\ r \in wnFetches /\ r[which] = Pending
    /\ wnFetches' = (wnFetches \ {r}) \cup {[r2 EXCEPT !.settled = r.settled \/ done]}
    /\ wnWeather' = IF ~r.settled /\ which = "weather" THEN data ELSE wnWeather
    /\ wnNews' = IF ~r.settled /\ which = "news" THEN data ELSE wnNews
    /\ wnLoading' = IF ~r.settled /\ done THEN FALSE ELSE wnLoading
    /\ UNCHANGED <<wnOrigin, wnDestination, wnOnError, wnMounted, wnError, wnOnErrorCalls>>
    /\ UNCHANGED <<profileVars, pageVars, view, mounted, logistics, routeTool, csv, nav, shipmentForm, reports, mapSelector>>

\* one of the two requests of the call r is answered with a body. Promise.all
\* resolves once both are: setWeather, setNews, then the finally block. A
\* response that arrives after Promise.all has rejected changes nothing.
WnResolve(r, which, data) ==
    LET r2 == [r EXCEPT ![which] = data]
        done == r2.weather \in ResponseData("weather") /\ r2.news \in ResponseData("news") IN
    /\ r \in wnFetches /\ r[which] = Pending
    /\ wnFetches' = (wnFetches \ {r}) \cup {[r2 EXCEPT !.settled = r.settled \/ done]}
    /\ IF ~r.settled /\ done
       THEN /\ wnWeather' = r2.weather
            /\ wnNews' = r2.news
            /\ wnLoading' = FALSE
       ELSE UNCHANGED <<wnWeather, wnNews, wnLoading>>
    /\ UNCHANGED <<wnOrigin, wnDestination, wnOnError, wnMounted, wnError, wnOnErrorCalls>>
    /\ UNCHANGED <<profileVars, pageVars, view, mounted, logistics, routeTool, csv, nav, shipmentForm, reports, mapSelector>>

\* one of the two requests of the call r is rejected. The first rejection
\* rejects Promise.all: the catch block, then the finally block.
WnReject(r, which, msg) ==
    LET errorMsg == IF msg # "" THEN msg ELSE "Failed to fetch data" IN
    /\ r \in wnFetches /\ r[which] = Pending
    /\ wnFetches' = (wnFetches \ {r}) \cup
          {[r EXCEPT ![which] = Rejected(msg), !.settled = TRUE]}
    /\ IF ~r.settled
       THEN /\ wnError' = errorMsg
            /\ wnOnErrorCalls' = IF wnOnError THEN Append(wnOnErrorCalls, errorMsg)
                                 ELSE wnOnErrorCalls
            /\ wnLoading' = FALSE
       ELSE UNCHANGED <<wnError, wnOnErrorCalls, wnLoading>>
    /\ UNCHANGED <<wnOrigin, wnDestination, wnOnError, wnMounted, wnWeather, wnNews>>
    /\ UNCHANGED <<profileVars, pageVars, view, mounted, logistics, routeTool, csv, nav, shipmentForm, reports, mapSelector>>

(***************************************************************************)
(* Logistics page: the list of shipments                                   *)
(* mounted = "Logistics" is the page with filters and analytics,           *)
(* mounted = "Logistics.jsx" the page that only lists the shipments.       *)
(***************************************************************************)
\* the useState initial values of Logistics. issued counts the requests sent;
\* unhandled records a promise rejection that no handler caught; rejected is
\* the number of the shipments request whose rejection was handled last.
LogisticsInit ==
    logistics = [effectsRan |-> FALSE, shipments |-> <<>>, loading |-> TRUE,
                 filters |-> [status |-> "", transport_mode |-> "", priority |-> "",
                              search |-> ""],
                 analytics |-> Null, inflight |-> {}, issued |-> 0,
                 unhandled |-> FALSE, rejected |-> 0]

\* lists GET /api/logistics/shipments answers with
BackendShipments ==
    {<<>>,
     <<[id |-> "SHP1", origin |-> "Pune", destination |-> "Goa"],
       [id |-> "SHP2", origin |-> "Delhi", destination |-> "Agra"]>>}

\* text.toLowerCase().includes(searchTerm), for the texts and terms above (no
\* text contains a term without being equal to it)
IncludesLower(text, searchTerm) ==
    (CASE text = "Goa" -> "goa" [] text = "Pune" -> "pune" [] text = "Delhi" -> "delhi"
       [] text = "Agra" -> "agra" [] text = "SHP1" -> "shp1" [] text = "SHP2" -> "shp2")
    = searchTerm

\* fetchShipments up to its await, applied to the state l: the request keeps
\* the filters of the render that made the call
FetchShipments(l) ==
    [l EXCEPT !.loading = TRUE,
              !.inflight = @ \cup {[seq |-> l.issued + 1, kind |-> "shipments",
                                    filters |-> l.filters]},
              !.issued = @ + 1]

\* the mount effects: fetchShipments and fetchAnalytics, then (filters effect)
\* fetchShipments again; Logistics.jsx has the first call only
LgMount ==
    /\ mounted \in {"Logistics", "Logistics.jsx"}
    /\ ~logistics.effectsRan
    /\ logistics' =
          IF mounted = "Logistics.jsx"
          THEN [FetchShipments(logistics) EXCEPT !.effectsRan = TRUE]
          ELSE LET l1 == FetchShipments(logistics)
                   l2 == [l1 EXCEPT !.inflight = @ \cup {[seq |-> l1.issued + 1,
                                                          kind |-> "analytics",
                                                          filters |-> l1.filters]},
                                    !.issued = @ + 1] IN
               [FetchShipments(l2) EXCEPT !.effectsRan = TRUE]
    /\ UNCHANGED <<profileVars, pageVars, view, wnVars, mounted, routeTool, csv, nav, shipmentForm, reports, mapSelector>>

\* one of the filter inputs changes: setFilters, then the [filters] effect
LgSetFilter(name, value) ==
    /\ mounted = "Logistics"
    /\ logistics.effectsRan
    /\ logistics.filters[name] # value
    /\ logistics.issued < MaxFetches + 3
    /\ logistics' = FetchShipments([logistics EXCEPT !.filters[name] = value])
    /\ UNCHANGED <<profileVars, pageVars, view, wnVars, mounted, routeTool, csv, nav, shipmentForm, reports, mapSelector>>

\* filteredShipments.filter(...) with the search term of the request
SearchFilter(list, searchTerm) ==
    SelectSeq(list, LAMBDA sh : \/ IncludesLower(sh.id, searchTerm)
                                \/ IncludesLower(sh.origin, searchTerm)
                                \/ IncludesLower(sh.destination, searchTerm))

\* a shipments request is answered with the JSON body result
LgShipmentsAnswer(r, result) ==
    /\ r \in logistics.inflight /\ r.kind = "shipments"
    /\ logistics' =
          [logistics EXCEPT
              !.shipments = IF result.success
                            THEN (IF r.filters.search # ""
                                  THEN SearchFilter(result.shipments, r.filters.search)
                                  ELSE result.shipments)
                            ELSE @,
              !.loading = FALSE,
              !.inflight = @ \ {r}]
    /\ UNCHANGED <<profileVars, pageVars, view, wnVars, mounted, routeTool, csv, nav, shipmentForm, reports, mapSelector>>

\* a plausible slip: try/finally without the catch block
LgShipmentsRejectUncaught(r) ==
    /\ r \in logistics.inflight /\ r.kind = "shipments"
    /\ logistics' = [logistics EXCEPT !.loading = FALSE, !.inflight = @ \ {r},
                                      !.unhandled = TRUE, !.rejected = r.seq]
    /\ UNCHANGED <<profileVars, pageVars, view, wnVars, mounted, routeTool, csv, nav, shipmentForm, reports, mapSelector>>

\* the fetch of a shipments request rejects (or its body is not JSON): the
\* catch block logs the error, the finally block ends the loading
LgShipmentsReject(r) ==
    /\ r \in logistics.inflight /\ r.kind = "shipments"
    /\ logistics' = [logistics EXCEPT !.loading = FALSE, !.inflight = @ \ {r},
                                      !.rejected = r.seq]
    /\ UNCHANGED <<profileVars, pageVars, view, wnVars, mounted, routeTool, csv, nav, shipmentForm, reports, mapSelector>>

\* the analytics request ends: rejected (caught), or answered with result
LgAnalyticsDone(r, result) ==
    /\ r \in logistics.inflight /\ r.kind = "analytics"
    /\ logistics' =
          [logistics EXCEPT
              !.analytics = IF "success" \in DOMAIN result /\ result.success
                            THEN result.analytics ELSE @,
              !.inflight = @ \ {r}]
    /\ UNCHANGED <<profileVars, pageVars, view, wnVars, mounted, routeTool, csv, nav, shipmentForm, reports, mapSelector>>

(***************************************************************************)
(* RouteOptimizer, PreciseRouteAnalysisSection and PreciseRouteAnalysis:   *)
(* a form, a button that validates and posts, the result or an error.      *)
(* routeTool holds the state of the one that is mounted: destinations and  *)
(* optimization belong to RouteOptimizer, formData and analysis to the two *)
(* analysis components.                                                    *)
(***************************************************************************)
MaxDestinations == 2

\* the useState initial values. click flips at every run of the button's
\* handler and issued counts the requests sent.
RouteToolInit ==
    routeTool = [destinations |-> <<"">>,
                 formData |-> IF mounted = "PreciseRouteAnalysis"
                              THEN [origin |-> "", destination |-> "",
                                    transport_mode |-> "road", weight |-> 10]
                              ELSE [origin |-> "", destination |-> "",
                                    transport_mode |-> "", weight |-> ""],
                 optimization |-> Null, analysis |-> Null,
                 loading |-> FALSE, error |-> NoError,
                 inflight |-> {}, issued |-> 0, click |-> FALSE]

\* parseFloat(text) || 10 for the texts a number input delivers here
ParseFloatOr10(text) == IF text = "5" THEN 5 ELSE 10

\* destinations.filter(dest => dest.trim())
ValidDestinations(destinations) == SelectSeq(destinations, LAMBDA d : d \notin {"", " "})

\* the condition of the handler's validation, for the state t
MissingInput(t) ==
    CASE mounted = "RouteOptimizer" -> Len(ValidDestinations(t.destinations)) < 2
      [] mounted = "PreciseRouteAnalysisSection" ->
            \/ t.formData.origin = "" \/ t.formData.destination = ""
            \/ t.formData.transport_mode = "" \/ t.formData.weight = ""
      [] mounted = "PreciseRouteAnalysis" ->
            t.formData.origin = "" \/ t.formData.destination = ""

\* RouteOptimizer: addDestination
AddDestination ==
    /\ mounted = "RouteOptimizer"
    /\ Len(routeTool.destinations) < MaxDestinations
    /\ routeTool' = [routeTool EXCEPT !.destinations = Append(@, "")]
    /\ UNCHANGED <<profileVars, pageVars, view, wnVars, mounted, logistics, csv, nav, shipmentForm, reports, mapSelector>>

\* RouteOptimizer: updateDestination(index, value)
UpdateDestination(index, value) ==
    /\ mounted = "RouteOptimizer"
    /\ index \in DOMAIN routeTool.destinations
    /\ routeTool.destinations[index] # value
    /\ routeTool' = [routeTool EXCEPT !.destinations[index] = value]
    /\ UNCHANGED <<profileVars, pageVars, view, wnVars, mounted, logistics, csv, nav, shipmentForm, reports, mapSelector>>

\* the analysis forms: onChange of the input name. PreciseRouteAnalysis
\* stores parseFloat(value) || 10 as weight, the Section stores the text; the
\* transport-mode select of PreciseRouteAnalysis has no empty option.
SetFormField(name, value) ==
    LET stored == IF name = "weight" /\ mounted = "PreciseRouteAnalysis"
                  THEN ParseFloatOr10(value) ELSE value IN
    /\ mounted \in {"PreciseRouteAnalysisSection", "PreciseRouteAnalysis"}
    /\ name = "weight" <=> value \in {"", "5", "0"}
    /\ name = "transport_mode" =>
          value \in {"road"} \cup (IF mounted = "PreciseRouteAnalysis" THEN {} ELSE {""})
    /\ name \in {"origin", "destination"} => value \in {"", "Goa"}
    /\ routeTool.formData[name] # stored
    /\ routeTool' = [routeTool EXCEPT !.formData[name] = stored]
    /\ UNCHANGED <<profileVars, pageVars, view, wnVars, mounted, logistics, csv, nav, shipmentForm, reports, mapSelector>>

\* the message of the handler's validation
ValidationError ==
    CASE mounted = "RouteOptimizer" -> "Please enter at least 2 destinations"
      [] mounted = "PreciseRouteAnalysisSection" -> "Please fill in all fields"
      [] mounted = "PreciseRouteAnalysis" -> "Please enter both origin and destination"

\* the body of the POST
RequestBody(t) ==
    CASE mounted = "RouteOptimizer" -> ValidDestinations(t.destinations)
      [] mounted = "PreciseRouteAnalysisSection" ->
            [t.formData EXCEPT !.weight = ParseFloatOr10(@)]
      [] mounted = "PreciseRouteAnalysis" -> t.formData

\* a plausible slip: the validation sets the error but does not return
AnalyzeNoReturn ==
    /\ mounted \in {"RouteOptimizer", "PreciseRouteAnalysisSection", "PreciseRouteAnalysis"}
    /\ ~routeTool.loading
    /\ mounted = "RouteOptimizer" => ~MissingInput(routeTool)
    /\ routeTool.issued < MaxFetches
    /\ routeTool' = [routeTool EXCEPT
                        !.click = ~@, !.loading = TRUE,
                        !.error = IF MissingInput(routeTool) THEN ValidationError
                                  ELSE NoError,
                        !.inflight = @ \cup {[seq |-> routeTool.issued + 1,
                                              body |-> RequestBody(routeTool)]},
                        !.issued = @ + 1]
    /\ UNCHANGED <<profileVars, pageVars, view, wnVars, mounted, logistics, csv, nav, shipmentForm, reports, mapSelector>>

\* the button: optimizeRoute / handleAnalyze up to the await. The button is
\* disabled while loading, and in RouteOptimizer also while fewer than two
\* destinations are filled in.
Analyze ==
    /\ mounted \in {"RouteOptimizer", "PreciseRouteAnalysisSection", "PreciseRouteAnalysis"}
    /\ ~routeTool.loading
    /\ mounted = "RouteOptimizer" => ~MissingInput(routeTool)
    /\ IF MissingInput(routeTool)
       THEN routeTool' = [routeTool EXCEPT !.click = ~@, !.error = ValidationError]
       ELSE /\ routeTool.issued < MaxFetches
            /\ routeTool' = [routeTool EXCEPT
                                !.click = ~@, !.loading = TRUE, !.error = NoError,
                                !.inflight = @ \cup {[seq |-> routeTool.issued + 1,
                                                      body |-> RequestBody(routeTool)]},
                                !.issued = @ + 1]
    /\ UNCHANGED <<profileVars, pageVars, view, wnVars, mounted, logistics, csv, nav, shipmentForm, reports, mapSelector>>

\* the POST is answered with the JSON body result: data stands for
\* result.routes / result.analysis, error for result.message / result.error
AnalyzeAnswer(r, result) ==
    LET fallback == IF mounted = "RouteOptimizer" THEN "Failed to optimize route"
                    ELSE "Analysis failed" IN
    /\ r \in routeTool.inflight
    /\ routeTool' =
          [routeTool EXCEPT
              !.optimization = IF result.success /\ mounted = "RouteOptimizer"
                               THEN result.data ELSE @,
              !.analysis = IF result.success /\ mounted # "RouteOptimizer"
                           THEN result.data ELSE @,
              !.error = IF result.success THEN @
                        ELSE IF result.error # "" THEN result.error ELSE fallback,
              !.loading = FALSE,
              !.inflight = @ \ {r}]
    /\ UNCHANGED <<profileVars, pageVars, view, wnVars, mounted, logistics, csv, nav, shipmentForm, reports, mapSelector>>

\* the fetch rejects or the body is not JSON: catch, finally
AnalyzeReject(r, message) ==
    /\ r \in routeTool.inflight
    /\ routeTool' =
          [routeTool EXCEPT
              !.error = (IF mounted = "RouteOptimizer" THEN "Error optimizing route: "
                         ELSE "Network error: ") \o message,
              !.loading = FALSE,
              !.inflight = @ \ {r}]
    /\ UNCHANGED <<profileVars, pageVars, view, wnVars, mounted, logistics, csv, nav, shipmentForm, reports, mapSelector>>

(***************************************************************************)
(* exportToCSV: the text of the CSV file                                   *)
(* A JavaScript value is a record with its typeof: strings carry their     *)
(* atoms (plain runs, ",", '"', newline) as value, numbers an integer as   *)
(* number, objects a profile-like object or Null as object.                *)
(***************************************************************************)
MaxRows == 2
NL == "\n"

\* Object.keys of the records the Logistics page exports
ExportHeaders ==
    <<"ID", "Origin", "Destination", "Status", "Created Date", "ETA", "Items Count", "Cost">>

\* records the page can export: shipments.map(s => ({ID: s.id, ...})); a field
\* the shipment lacks is present with the value undefined
ExportRecords ==
    {[ID |-> id, Origin |-> origin,
      Destination |-> [typeof |-> "string", value |-> <<"Goa">>],
      Status |-> [typeof |-> "string", value |-> <<"In Transit">>],
      ETA |-> [typeof |-> "object", object |-> Null],
      Cost |-> cost] @@
     ("Created Date" :> [typeof |-> "string", value |-> <<"2025-01-01">>]) @@
     ("Items Count" :> [typeof |-> "number", number |-> 3]) :
        id \in {[typeof |-> "string", value |-> <<"SHP1">>],
                [typeof |-> "string", value |-> <<"a", ",", "b">>],
                [typeof |-> "string", value |-> <<DQ, "a", DQ>>]},
        origin \in {[typeof |-> "string", value |-> <<"a", NL, "b">>],
                    [typeof |-> "undefined"],
                    [typeof |-> "object", object |-> [state |-> <<"Goa">>]]},
        cost \in {[typeof |-> "number", number |-> 7], [typeof |-> "string", value |-> <<>>]}}

\* a plausible slip: the quotes inside a value are left single
ReplaceQuotesNone(s) == s

\* value.replace(/"/g, '""')
RECURSIVE ReplaceQuotes(_)
ReplaceQuotes(s) ==
    IF s = <<>> THEN <<>>
    ELSE (IF Head(s) = DQ THEN <<DQ, DQ>> ELSE <<Head(s)>>) \o ReplaceQuotes(Tail(s))

\* the callback of headers.map: the text of one field
CsvField(value) ==
    IF value.typeof = "number" THEN <<IdStr(value.number)>>
    ELSE IF value.typeof = "undefined" \/ (value.typeof = "object" /\ value.object = Null)
    THEN <<>>
    ELSE LET str == IF value.typeof = "object" THEN JSONstringify(value.object)
                    ELSE value.value
             replaced == ReplaceQuotes(str) IN
         IF \E i \in DOMAIN replaced : replaced[i] \in {",", DQ, NL}
         THEN <<DQ>> \o replaced \o <<DQ>>
         ELSE replaced

\* Array.prototype.join for a list of texts
RECURSIVE Join(_, _)
Join(texts, separator) ==
    IF texts = <<>> THEN <<>>
    ELSE IF Len(texts) = 1 THEN texts[1]
    ELSE texts[1] \o <<separator>> \o Join(Tail(texts), separator)

\* the text exportToCSV hands to the Blob; Undefined when it returns early
exportToCSV(data) ==
    IF data = <<>> THEN Undefined
    ELSE LET headers == SelectSeq(ExportHeaders, LAMBDA h : h \in DOMAIN data[1]) IN
         Join(<<Join([i \in 1..Len(headers) |-> <<headers[i]>>], ",")>> \o
              [k \in 1..Len(data) |->
                  Join([i \in 1..Len(headers) |-> CsvField(data[k][headers[i]])], ",")],
              NL)

\* the menu entry "Export as CSV"
ExportAsCSV ==
    /\ mounted = "ExportMenu"
    /\ csv' = [csv EXCEPT !.text = exportToCSV(csv.data)]
    /\ UNCHANGED <<profileVars, pageVars, view, wnVars, mounted, logistics, routeTool, nav, shipmentForm, reports, mapSelector>>

(***************************************************************************)
(* The shell: AppContent (selected page, sidebar) and Content (shown page) *)
(***************************************************************************)
\* the ids of the sidebar's menu items
PageIds ==
    {"dashboard", "demand-forecasting", "inventory", "logistics", "scenarios",
     "reports", "settings"}

\* a plausible slip: two cases of the switch are exchanged
renderBySwapped(key) ==
    CASE key = "dashboard" -> "Dashboard"
      [] key = "demand-forecasting" -> "DemandForecasting"
      [] key = "inventory" -> "InventoryManagement"
      [] key = "logistics" -> "Logistics"
      [] key = "scenarios" -> "Reports"
      [] key = "reports" -> "WhatIfScenarios"
      [] key = "settings" -> "Settings"
      [] OTHER -> "Dashboard"

\* Content.renderBy: the page component of a key
renderBy(key) ==
    CASE key = "dashboard" -> "Dashboard"
      [] key = "demand-forecasting" -> "DemandForecasting"
      [] key = "inventory" -> "InventoryManagement"
      [] key = "logistics" -> "Logistics"
      [] key = "scenarios" -> "WhatIfScenarios"
      [] key = "reports" -> "Reports"
      [] key = "settings" -> "Settings"
      [] OTHER -> "Dashboard"

\* what Content returns for the state n: the entering page, and the leaving
\* page while prevKey is set (NoItem stands for a null prevKey)
ContentRender(n) ==
    [n EXCEPT !.current = renderBy(n.currentKey),
              !.leaving = IF n.prevKey # NoItem THEN renderBy(n.prevKey) ELSE NoItem]

\* the useState initial values of AppContent and Content, rendered
NavInit ==
    nav = ContentRender([activeComponent |-> "dashboard", sidebarOpen |-> FALSE,
                         effectRan |-> FALSE, timer |-> FALSE,
                         currentKey |-> "dashboard", prevKey |-> NoItem,
                         current |-> NoItem, leaving |-> NoItem])

\* AppContent: useEffect(..., [businessInfo]) of the first render
AppEffect ==
    /\ mounted = "AppContent"
    /\ ~nav.effectRan
    /\ nav' = [nav EXCEPT !.effectRan = TRUE,
                          !.activeComponent = IF businessInfo = Null THEN "settings" ELSE @]
    /\ UNCHANGED <<profileVars, pageVars, view, wnVars, mounted, logistics, routeTool, csv, shipmentForm, reports, mapSelector>>

\* Navbar: the menu button
ToggleSidebar ==
    /\ mounted = "AppContent"
    /\ nav' = [nav EXCEPT !.sidebarOpen = ~@]
    /\ UNCHANGED <<profileVars, pageVars, view, wnVars, mounted, logistics, routeTool, csv, shipmentForm, reports, mapSelector>>

\* Sidebar: a menu item is clicked
SelectPage(id) ==
    /\ mounted = "AppContent"
    /\ nav' = [nav EXCEPT !.activeComponent = id, !.sidebarOpen = FALSE]
    /\ UNCHANGED <<profileVars, pageVars, view, wnVars, mounted, logistics, routeTool, csv, shipmentForm, reports, mapSelector>>

\* the cleanup of Content's effect, run when a render changes a dependency:
\* clearTimeout(t)
ContentCleanup(n) == [n EXCEPT !.timer = FALSE]

\* Content: useEffect(..., [activeComponent, currentKey]) when the two differ:
\* the keys are set and the 320 ms timeout is started (timer: it is pending).
\* The render that follows setCurrentKey changes the dependency currentKey,
\* so React runs the cleanup before the effect runs again (now a no-op):
\* the timeout is cleared long before it is due and never fires.
ContentEffect ==
    /\ mounted = "AppContent"
    /\ nav.activeComponent # nav.currentKey
    /\ nav' = ContentRender(ContentCleanup(
                 [nav EXCEPT !.prevKey = nav.currentKey,
                             !.currentKey = nav.activeComponent,
                             !.timer = TRUE]))
    /\ UNCHANGED <<profileVars, pageVars, view, wnVars, mounted, logistics, routeTool, csv, shipmentForm, reports, mapSelector>>

(***************************************************************************)
(* NewShipmentForm: the creation form of the Logistics page                *)
(***************************************************************************)
MaxItems == 2

\* the useState initial values of NewShipmentForm; open: the parent shows the
\* form; onSuccess: the calls of the parent's onSuccess
NewShipmentFormInit ==
    shipmentForm =
      [formData |-> [destination |-> "", origin |-> "Bangalore Distribution Center",
                     items |-> <<[description |-> "", quantity |-> 1, weight |-> 0]>>,
                     selectedProvider |-> "", selectedMode |-> "road",
                     priority |-> "standard", notes |-> "", estimated_days |-> 4],
       loading |-> FALSE, error |-> NoError, open |-> TRUE,
       inflight |-> {}, issued |-> 0, onSuccess |-> 0]

\* what the user can enter: texts for the text inputs, TRANSPORT_MODES ids
\* for the mode buttons
FormInputs(name) ==
    CASE name = "selectedMode" -> {"road", "rail"}
      [] name = "origin" -> {"", "Bangalore Distribution Center"}
      [] name = "destination" -> {"", "Pune"}
      [] name = "description" -> {"", "Rice"}

\* onChange of a text input / onClick of a mode button
SetFormData(name, value) ==
    /\ mounted = "NewShipmentForm" /\ shipmentForm.open
    /\ shipmentForm.formData[name] # value
    /\ shipmentForm' = [shipmentForm EXCEPT !.formData[name] = value]
    /\ UNCHANGED <<profileVars, pageVars, view, wnVars, mounted, logistics, routeTool, csv, nav, reports, mapSelector>>

addItem ==
    /\ mounted = "NewShipmentForm" /\ shipmentForm.open
    /\ Len(shipmentForm.formData.items) < MaxItems
    /\ shipmentForm' = [shipmentForm EXCEPT !.formData.items =
                           Append(@, [description |-> "", quantity |-> 1, weight |-> 0])]
    /\ UNCHANGED <<profileVars, pageVars, view, wnVars, mounted, logistics, routeTool, csv, nav, reports, mapSelector>>

\* the remove button is rendered for every item but the first
removeItem(index) ==
    /\ mounted = "NewShipmentForm" /\ shipmentForm.open
    /\ index > 1 /\ index <= Len(shipmentForm.formData.items)
    /\ shipmentForm' = [shipmentForm EXCEPT !.formData.items =
                           SubSeq(@, 1, index - 1) \o SubSeq(@, index + 1, Len(@))]
    /\ UNCHANGED <<profileVars, pageVars, view, wnVars, mounted, logistics, routeTool, csv, nav, reports, mapSelector>>

updateItem(index, field, value) ==
    /\ mounted = "NewShipmentForm" /\ shipmentForm.open
    /\ index <= Len(shipmentForm.formData.items)
    /\ shipmentForm.formData.items[index][field] # value
    /\ shipmentForm' = [shipmentForm EXCEPT !.formData.items[index][field] = value]
    /\ UNCHANGED <<profileVars, pageVars, view, wnVars, mounted, logistics, routeTool, csv, nav, reports, mapSelector>>

\* a submit button that does not look at the items
SubmitDisabledBare(f) ==
    \/ f.loading
    \/ f.formData.selectedMode = ""
    \/ f.formData.destination = ""

\* the disabled attribute of the submit button
SubmitDisabled(f) ==
    \/ f.loading
    \/ f.formData.selectedMode = ""
    \/ f.formData.destination = ""
    \/ \E i \in 1..Len(f.formData.items) : f.formData.items[i].description = ""

\* items.reduce((sum, item) => sum + (item[field] || 0), 0)
RECURSIVE SumItems(_, _)
SumItems(items, field) ==
    IF items = <<>> THEN 0
    ELSE SumItems(SubSeq(items, 1, Len(items) - 1), field) + items[Len(items)][field]

\* the submit button is clicked: the browser checks the required inputs (of
\* which origin can be empty while the button is enabled), then handleSubmit
\* runs up to its await
CreateShipment ==
    LET fd == shipmentForm.formData IN
    /\ mounted = "NewShipmentForm" /\ shipmentForm.open
    /\ ~SubmitDisabled(shipmentForm)
    /\ fd.origin # ""
    /\ shipmentForm.issued < MaxFetches
    /\ shipmentForm' =
         [shipmentForm EXCEPT
            !.loading = TRUE, !.error = NoError, !.issued = @ + 1,
            !.inflight = @ \cup
               {[seq |-> shipmentForm.issued + 1,
                 payload |-> [destination |-> fd.destination, origin |-> fd.origin,
                              transport_mode |-> fd.selectedMode, priority |-> fd.priority,
                              items |-> fd.items, notes |-> fd.notes,
                              weight |-> SumItems(fd.items, "weight"),
                              items_count |-> SumItems(fd.items, "quantity"),
                              estimated_days |-> fd.estimated_days]]}]
    /\ UNCHANGED <<profileVars, pageVars, view, wnVars, mounted, logistics, routeTool, csv, nav, reports, mapSelector>>

\* the close button of the header (Cancel is disabled while loading): the
\* parent stops rendering the form; a request in flight goes on
CloseShipmentForm ==
    /\ mounted = "NewShipmentForm" /\ shipmentForm.open
    /\ shipmentForm' = [shipmentForm EXCEPT !.open = FALSE]
    /\ UNCHANGED <<profileVars, pageVars, view, wnVars, mounted, logistics, routeTool, csv, nav, reports, mapSelector>>

\* the POST is answered: onSuccess(response.data); onClose(); finally
CreateShipmentAnswer(r) ==
    /\ mounted = "NewShipmentForm"
    /\ r \in shipmentForm.inflight
    /\ shipmentForm' = [shipmentForm EXCEPT !.inflight = @ \ {r}, !.onSuccess = @ + 1,
                                            !.open = FALSE, !.loading = FALSE]
    /\ UNCHANGED <<profileVars, pageVars, view, wnVars, mounted, logistics, routeTool, csv, nav, reports, mapSelector>>

\* the POST is rejected with the message msg ("" : none): catch; finally
CreateShipmentReject(r, msg) ==
    /\ mounted = "NewShipmentForm"
    /\ r \in shipmentForm.inflight
    /\ shipmentForm' = [shipmentForm EXCEPT
                          !.inflight = @ \ {r}, !.loading = FALSE,
                          !.error = IF msg # "" THEN msg ELSE "Failed to create shipment"]
    /\ UNCHANGED <<profileVars, pageVars, view, wnVars, mounted, logistics, routeTool, csv, nav, reports, mapSelector>>

(***************************************************************************)
(* Reports: one request per change of the report type                      *)
(***************************************************************************)
\* the options of the report type select (three of the four)
reportTypes == {"executive-summary", "sales", "inventory"}

\* the useState initial values of Reports
ReportsInit ==
    reports = [reportType |-> "executive-summary", reportData |-> Null,
               loading |-> FALSE, effectRan |-> FALSE, inflight |-> {}, issued |-> 0]

\* generateReport up to its await, called by the effect for the type t
generateReport(rp, t) ==
    [rp EXCEPT !.loading = TRUE, !.issued = @ + 1,
               !.inflight = @ \cup {[seq |-> rp.issued + 1, type |-> t]}]

\* useEffect(..., [reportType]) of the first render
ReportsEffect ==
    /\ mounted = "Reports"
    /\ ~reports.effectRan
    /\ reports' = generateReport([reports EXCEPT !.effectRan = TRUE], reports.reportType)
    /\ UNCHANGED <<profileVars, pageVars, view, wnVars, mounted, logistics, routeTool, csv, nav, shipmentForm, mapSelector>>

\* the select: setReportType(value), then the effect of the changed type
SetReportType(t) ==
    /\ mounted = "Reports"
    /\ reports.effectRan
    /\ t # reports.reportType
    /\ reports.issued < MaxFetches + 1
    /\ reports' = generateReport([reports EXCEPT !.reportType = t], t)
    /\ UNCHANGED <<profileVars, pageVars, view, wnVars, mounted, logistics, routeTool, csv, nav, shipmentForm, mapSelector>>

\* a plausible variant: the answer of a superseded request is dropped
ReportAnswerSequenced(r, success) ==
    /\ mounted = "Reports"
    /\ r \in reports.inflight
    /\ reports' = [reports EXCEPT
                     !.inflight = @ \ {r},
                     !.loading = IF r.seq = reports.issued THEN FALSE ELSE @,
                     !.reportData = IF r.seq # reports.issued THEN @
                                    ELSE IF success THEN [reportFor |-> r.type] ELSE Null]
    /\ UNCHANGED <<profileVars, pageVars, view, wnVars, mounted, logistics, routeTool, csv, nav, shipmentForm, mapSelector>>

\* the request r is answered: with the report of its type (success), or with
\* a falsy success flag or a rejection (setReportData(null)); finally
ReportAnswer(r, success) ==
    /\ mounted = "Reports"
    /\ r \in reports.inflight
    /\ reports' = [reports EXCEPT
                     !.inflight = @ \ {r},
                     !.loading = FALSE,
                     !.reportData = IF success THEN [reportFor |-> r.type] ELSE Null]
    /\ UNCHANGED <<profileVars, pageVars, view, wnVars, mounted, logistics, routeTool, csv, nav, shipmentForm, mapSelector>>

(***************************************************************************)
(* MapSelector: the interactive route planner                              *)
(***************************************************************************)
\* the map positions that can be clicked: [k, k] for k in 1..MaxLatLng
MaxLatLng == 2
LatLngs == {<<k, k>> : k \in 1..MaxLatLng}

\* `${lat.toFixed(4)},${lng.toFixed(4)}`
ProvisionalName(latlng) ==
    CASE latlng[1] = 1 -> "1.0000,1.0000"
      [] latlng[1] = 2 -> "2.0000,2.0000"
      [] latlng[1] = 3 -> "3.0000,3.0000"

\* what reverseGeocode can resolve to: a "city, state" label of the position,
\* or the coordinates when the lookup fails (never an empty text)
GeocodeNames(latlng) ==
    {ProvisionalName(latlng),
     CASE latlng[1] = 1 -> "Pune, Maharashtra"
       [] latlng[1] = 2 -> "Panaji, Goa"
       [] latlng[1] = 3 -> "Mysuru, Karnataka"}

\* what fetchWeather can resolve to: the normalized weather at the position,
\* or null
WeatherAt(latlng) == {Null, [temp |-> 20 + latlng[1], raw |-> latlng]}

NoHandler == [kind |-> "none"]

MapSelectorInit ==
    mapSelector = [points |-> <<>>, originName |-> "", destinationName |-> "",
                   recommendation |-> Null, pendingRecommendation |-> Null,
                   weather |-> Null, loading |-> FALSE, error |-> NoError,
                   pending |-> NoHandler]

\* handleSelect(latlng) up to its first await. The loading overlay covers the
\* map, so that a click reaches the map only while loading is false.
handleSelect(latlng) ==
    LET points == mapSelector.points
        newPoints == IF Len(points) >= 2 THEN <<latlng>> ELSE Append(points, latlng)
        provisionalName == ProvisionalName(latlng) IN
    /\ mounted = "MapSelector"
    /\ ~mapSelector.loading
    /\ mapSelector' = [mapSelector EXCEPT
          !.loading = TRUE,
          !.error = NoError,
          !.points = newPoints,
          !.originName = IF Len(newPoints) = 1 THEN provisionalName ELSE @,
          !.destinationName = IF Len(newPoints) = 1 THEN @ ELSE provisionalName,
          !.pending = [kind |-> "geocode", latlng |-> latlng, n |-> Len(newPoints),
                       name |-> ""]]
    /\ UNCHANGED <<profileVars, pageVars, view, wnVars, mounted, logistics, routeTool, csv, nav, shipmentForm, reports>>

\* reverseGeocode has resolved to name: the name replaces the provisional one
SelectGeocoded(name) ==
    LET h == mapSelector.pending
        shown == IF name # "" THEN name ELSE ProvisionalName(h.latlng) IN
    /\ mounted = "MapSelector"
    /\ h.kind = "geocode"
    /\ name \in GeocodeNames(h.latlng)
    /\ mapSelector' = [mapSelector EXCEPT
          !.originName = IF h.n = 1 THEN shown ELSE @,
          !.destinationName = IF h.n = 1 THEN @ ELSE shown,
          !.pending = [h EXCEPT !.kind = "weather", !.name = name]]
    /\ UNCHANGED <<profileVars, pageVars, view, wnVars, mounted, logistics, routeTool, csv, nav, shipmentForm, reports>>

\* fetchWeather has resolved to weatherData: the rest of handleSelect and
\* its finally block
SelectWeather(weatherData) ==
    LET h == mapSelector.pending
        prev == mapSelector.weather IN
    /\ mounted = "MapSelector"
    /\ h.kind = "weather"
    /\ weatherData \in WeatherAt(h.latlng)
    /\ mapSelector' = [mapSelector EXCEPT
          !.originName = IF h.n = 1 THEN h.name ELSE @,
          !.destinationName = IF h.n = 2 THEN h.name ELSE @,
          !.weather = IF h.n = 1 THEN [list |-> <<weatherData>>]
                      ELSE IF h.n = 2
                      THEN [list |-> Append(IF prev = Null THEN <<>> ELSE prev.list,
                                            weatherData)]
                      ELSE @,
          !.loading = FALSE,
          !.pending = NoHandler]
    /\ UNCHANGED <<profileVars, pageVars, view, wnVars, mounted, logistics, routeTool, csv, nav, shipmentForm, reports>>

\* points[i] of the request body: undefined past the end of the list
PointAt(points, i) == IF i <= Len(points) THEN points[i] ELSE Undefined

\* Get Route Recommendation (disabled while loading, or without one of the
\* names): callEstimate up to its await
callEstimate ==
    /\ mounted = "MapSelector"
    /\ ~mapSelector.loading
    /\ mapSelector.originName # "" /\ mapSelector.destinationName # ""
    /\ mapSelector' = [mapSelector EXCEPT
          !.pendingRecommendation = mapSelector.recommendation,
          !.loading = TRUE,
          !.error = NoError,
          !.pending = [kind |-> "estimate",
                       body |-> [origin |-> mapSelector.originName,
                                 destination |-> mapSelector.destinationName,
                                 originCoords |-> PointAt(mapSelector.points, 1),
                                 destinationCoords |-> PointAt(mapSelector.points, 2),
                                 weather |-> mapSelector.weather],
                       pendingRecommendation |-> mapSelector.pendingRecommendation]]
    /\ UNCHANGED <<profileVars, pageVars, view, wnVars, mounted, logistics, routeTool, csv, nav, shipmentForm, reports>>

\* prev || pendingRecommendation, with the pendingRecommendation of the
\* render that created the handler
KeepRecommendation(h) ==
    IF mapSelector.recommendation # Null THEN mapSelector.recommendation
    ELSE h.pendingRecommendation

\* POST /api/logistics/shipments/estimate answers, with or without a
\* recommendation
EstimateAnswer(hasRecommendation) ==
    LET h == mapSelector.pending IN
    /\ mounted = "MapSelector"
    /\ h.kind = "estimate"
    /\ mapSelector' = [mapSelector EXCEPT
          !.recommendation = IF hasRecommendation
                             THEN [origin |-> h.body.origin,
                                   destination |-> h.body.destination]
                             ELSE KeepRecommendation(h),
          !.pendingRecommendation = Null,
          !.loading = FALSE,
          !.pending = NoHandler]
    /\ UNCHANGED <<profileVars, pageVars, view, wnVars, mounted, logistics, routeTool, csv, nav, shipmentForm, reports>>

\* the POST rejects: the catch block
EstimateReject ==
    LET h == mapSelector.pending IN
    /\ mounted = "MapSelector"
    /\ h.kind = "estimate"
    /\ mapSelector' = [mapSelector EXCEPT
          !.error = "Failed to fetch route recommendation. Please try again.",
          !.recommendation = KeepRecommendation(h),
          !.pendingRecommendation = Null,
          !.loading = FALSE,
          !.pending = NoHandler]
    /\ UNCHANGED <<profileVars, pageVars, view, wnVars, mounted, logistics, routeTool, csv, nav, shipmentForm, reports>>

(***************************************************************************)
(* Specifications                                                          *)
(***************************************************************************)
\* the provider and the shell right after the app has started with the text
\* stored under 'businessInfo'
ProfileInit(stored) ==
    /\ localStorageBI = stored
    /\ businessInfo = BusinessInfoInit(stored)
    /\ settingsOpen = (BusinessInfoInit(stored) = Null)
    /\ form = EmptyForm
    /\ saved = FALSE

\* the useState initial values of DemandForecasting and Navbar
PageInit ==
    /\ effectsRan = FALSE
    /\ forecastPeriod = DefaultPeriod
    /\ forecast = Null
    /\ loading = FALSE
    /\ error = NoError
    /\ bootstrapped = FALSE
    /\ history = <<>>
    /\ overlayLoading = FALSE
    /\ selectedId = NoItem
    /\ dfPeriod = DefaultPeriod
    /\ dfLoading = FALSE
    /\ inflight = {}
    /\ nextSeq = 1
    /\ shownSeq = 0
    /\ appliedSeq = 0

\* the components of the other pages, none of them in use
ComponentsInit ==
    /\ mounted = "page"
    /\ WeatherNewsInit("", "", FALSE)
    /\ LogisticsInit
    /\ RouteToolInit
    /\ csv = [data |-> <<>>, text |-> Undefined]
    /\ NavInit
    /\ NewShipmentFormInit
    /\ ReportsInit
    /\ MapSelectorInit

\* -- the forecast page, opened with a saved profile; the session may hold the
\*    id of a forecast viewed earlier
Init ==
    /\ ProfileInit(JSONstringify(SampleProfile))
    /\ PageInit
    /\ lastForecastId \in {NoItem} \cup {IdStr(i) : i \in 1..MaxId}
    /\ view = NotRendered
    /\ ComponentsInit

Next ==
    \/ LoadMostRecentForecast
    \/ \E p \in Periods : SetDfPeriod(p)
    \/ GenerateClick
    \/ RetryClick
    \/ \E i \in 1..MaxId : SelectHistory(IdStr(i))
    \/ \E r \in inflight, f \in PageForecasts, fid \in 0..MaxId : ForecastOk(r, f, fid)
    \/ \E r \in inflight, msg \in Messages : ForecastFail(r, msg)
    \/ \E r \in inflight, msg \in Messages : ForecastReject(r, msg)
    \/ \E r \in inflight, ok \in BOOLEAN, items \in BackendHistories :
          ForecastHistoryDone(r, ok, items)
    \/ \E r \in inflight, f \in PageForecasts : ByIdOk(r, f)
    \/ \E r \in inflight : ByIdFail(r)
    \/ \E r \in inflight, items \in BackendHistories : BootHistoryOk(r, items)
    \/ \E r \in inflight : BootHistoryReject(r)

Spec == Init /\ [][Next]_vars

\* a request in flight is answered, in any of the ways it can be
Settle ==
    \E r \in inflight :
       \/ \E f \in PageForecasts, fid \in 0..MaxId : ForecastOk(r, f, fid)
       \/ \E msg \in Messages : ForecastFail(r, msg) \/ ForecastReject(r, msg)
       \/ \E ok \in BOOLEAN, items \in BackendHistories : ForecastHistoryDone(r, ok, items)
       \/ \E f \in PageForecasts : ByIdOk(r, f)
       \/ ByIdFail(r)
       \/ \E items \in BackendHistories : BootHistoryOk(r, items)
       \/ BootHistoryReject(r)

\* the same page when the mount effect runs and every request is answered
\* in the end
FairSpec == Spec /\ WF_vars(LoadMostRecentForecast) /\ WF_vars(Settle)

\* -- the business profile: first start (nothing stored) or a stored profile
InitProfile ==
    /\ \E stored \in {<<>>, JSONstringify(SampleProfile)} : ProfileInit(stored)
    /\ PageInit
    /\ lastForecastId = NoItem
    /\ view = NotRendered
    /\ ComponentsInit

NextProfile ==
    \/ OpenSettings
    \/ CloseSettings
    \/ \E name \in Fields : \E value \in InputValues(name) : HandleChange(name, value)
    \/ HandleSubmit
    \/ Reload

SpecProfile == InitProfile /\ [][NextProfile]_vars

\* -- the chart data: the page displays a forecast drawn from bounded sets
MaxWeeks == 3
MaxFestivals == 2
MaxSeasons == 2

StartDays == 0..1
WindowLengths == {0} \cup {Week * k : k \in 1..MaxWeeks} \cup {Week * k - 2 : k \in 1..MaxWeeks}

Festival(d, v) == [festival |-> "Diwali", date |-> d, demand_increase |-> v]
FestivalEvents ==
    {Festival(7, Num(60)), Festival(8, Num(60)), Festival(8, Num(150)),
     Festival(7, Num(0 - 20)), Festival(8, NotANumber)}

Season(a, b, v) == [season |-> "Winter", start |-> a, end |-> b, demand_surge |-> Num(v)]
SeasonEvents == {Season(8, 14, 80), Season(6, 9, 120), Season(8, 14, 0 - 10)}

FestivalDemands ==
    {Undefined, [top_items |-> <<>>]}
    \cup {[chart |-> c] : c \in SeqsUpTo(FestivalEvents, MaxFestivals)}
SeasonalDemands ==
    {Undefined, [top_items |-> <<>>]}
    \cup {[chart |-> c] : c \in SeqsUpTo(SeasonEvents, MaxSeasons)}

DeriverForecasts ==
    {[forecast_start |-> s, forecast_end |-> s + n,
      festival_demands |-> fd, seasonal_demands |-> sd] :
        s \in StartDays, n \in WindowLengths, fd \in FestivalDemands, sd \in SeasonalDemands}

InitDeriver ==
    /\ ProfileInit(JSONstringify(SampleProfile))
    /\ effectsRan = TRUE
    /\ forecastPeriod = DefaultPeriod
    /\ forecast \in DeriverForecasts
    /\ loading = FALSE
    /\ error = NoError
    /\ bootstrapped = TRUE
    /\ history = <<>>
    /\ overlayLoading = FALSE
    /\ selectedId = NoItem
    /\ lastForecastId = NoItem
    /\ dfPeriod = DefaultPeriod
    /\ dfLoading = FALSE
    /\ inflight = {}
    /\ nextSeq = 2
    /\ shownSeq = 1
    /\ appliedSeq = 1
    /\ view = NotRendered
    /\ ComponentsInit

NextDeriver == Render

SpecDeriver == InitDeriver /\ [][NextDeriver]_vars

\* -- the whole application, one of its components mounted and acting: the
\*    shell (AppContent with Content), Settings, the forecast page, or one of
\*    the components of the Logistics side
InitApp ==
    /\ mounted \in {"AppContent", "Settings", "DemandForecasting", "NewShipmentForm",
                    "Reports", "MapSelector",
                    "WeatherNews", "Logistics", "Logistics.jsx", "RouteOptimizer",
                    "PreciseRouteAnalysisSection", "PreciseRouteAnalysis", "ExportMenu"}
    /\ CASE mounted \in {"AppContent", "Settings"} ->
               \E stored \in {<<>>, JSONstringify(SampleProfile)} : ProfileInit(stored)
         [] mounted = "DemandForecasting" ->
               \* the sidebar opens the page with or without a saved profile
               \E stored \in {<<>>, JSONstringify(SampleProfile)} :
                  /\ localStorageBI = stored
                  /\ businessInfo = BusinessInfoInit(stored)
                  /\ settingsOpen = FALSE
                  /\ form = EmptyForm
                  /\ saved = FALSE
         [] OTHER -> ProfileInit(JSONstringify(SampleProfile))
    /\ PageInit
    /\ IF mounted = "DemandForecasting"
       THEN lastForecastId \in {NoItem} \cup {IdStr(i) : i \in 1..MaxId}
       ELSE lastForecastId = NoItem
    /\ view = NotRendered
    /\ NavInit
    /\ NewShipmentFormInit
    /\ ReportsInit
    /\ MapSelectorInit
    /\ IF mounted = "WeatherNews"
       THEN \E o \in Places, d \in Places, cb \in BOOLEAN : WeatherNewsInit(o, d, cb)
       ELSE WeatherNewsInit("", "", FALSE)
    /\ LogisticsInit
    /\ RouteToolInit
    /\ IF mounted = "ExportMenu"
       THEN \E data \in SeqsUpTo(ExportRecords, MaxRows) :
               csv = [data |-> data, text |-> Undefined]
       ELSE csv = [data |-> <<>>, text |-> Undefined]

NextApp ==
    \/ mounted = "Settings" /\ NextProfile
    \/ mounted = "DemandForecasting" /\ Next
    \/ AppEffect
    \/ ToggleSidebar
    \/ \E id \in PageIds : SelectPage(id)
    \/ ContentEffect
    \/ \E name \in {"destination", "origin", "selectedMode"} :
          \E value \in FormInputs(name) : SetFormData(name, value)
    \/ addItem
    \/ \E index \in 1..MaxItems : removeItem(index)
    \/ \E index \in 1..MaxItems : \E value \in FormInputs("description") :
          updateItem(index, "description", value)
    \/ ReportsEffect
    \/ \E t \in reportTypes : SetReportType(t)
    \/ \E r \in reports.inflight, success \in BOOLEAN : ReportAnswer(r, success)
    \/ \E latlng \in LatLngs : handleSelect(latlng)
    \/ \E latlng \in LatLngs : \E name \in GeocodeNames(latlng) : SelectGeocoded(name)
    \/ \E latlng \in LatLngs : \E weatherData \in WeatherAt(latlng) : SelectWeather(weatherData)
    \/ callEstimate
    \/ \E hasRecommendation \in BOOLEAN : EstimateAnswer(hasRecommendation)
    \/ EstimateReject
    \/ CreateShipment
    \/ CloseShipmentForm
    \/ \E r \in shipmentForm.inflight : CreateShipmentAnswer(r)
    \/ \E r \in shipmentForm.inflight, msg \in Messages : CreateShipmentReject(r, msg)
    \/ WnMount
    \/ \E o \in Places, d \in Places : WnSetRoute(o, d)
    \/ \E r \in wnFetches, which \in {"weather", "news"} :
          \E data \in ResponseData(which) : WnResolve(r, which, data)
    \/ \E r \in wnFetches, which \in {"weather", "news"}, msg \in Messages :
          WnReject(r, which, msg)
    \/ LgMount
    \/ \E name \in {"status", "search"}, value \in {"", "Delivered", "goa"} :
          LgSetFilter(name, value)
    \/ \E r \in logistics.inflight, ok \in BOOLEAN, list \in BackendShipments :
          LgShipmentsAnswer(r, [success |-> ok, shipments |-> list])
    \/ \E r \in logistics.inflight : LgShipmentsReject(r)
    \/ \E r \in logistics.inflight, result \in {Rejected(""), [success |-> FALSE],
                                                [success |-> TRUE, analytics |-> [total_shipments |-> 7]]} :
          LgAnalyticsDone(r, result)
    \/ AddDestination
    \/ \E index \in 1..MaxDestinations, value \in {"", " ", "Goa", "Pune"} :
          UpdateDestination(index, value)
    \/ \E name \in {"origin", "destination", "transport_mode", "weight"},
          value \in {"", "Goa", "road", "5", "0"} : SetFormField(name, value)
    \/ Analyze
    \/ \E r \in routeTool.inflight, ok \in BOOLEAN, msg \in Messages :
          AnalyzeAnswer(r, [success |-> ok, data |-> [total_distance |-> 120],
                            error |-> msg])
    \/ \E r \in routeTool.inflight : AnalyzeReject(r, "Failed to fetch")
    \/ ExportAsCSV

SpecApp == InitApp /\ [][NextApp]_vars

(***************************************************************************)
(* Properties                                                              *)
(***************************************************************************)

\* C1: the profile round-trips through the storage: at every moment, and so
\* after every save, re-initialising BusinessInfoProvider from the text stored
\* under 'businessInfo' yields exactly the in-memory businessInfo, and right
\* after a save (saved is set) businessInfo is the submitted form field for
\* field.
C1_ProfileRoundTrip ==
    /\ BusinessInfoInit(localStorageBI) = businessInfo
    /\ saved => /\ businessInfo = form
                /\ \A k \in Fields : JSONparse(localStorageBI)[k] = form[k]

\* a profile whose state name needs escaping has just been saved
C1_Witness ==
    /\ saved
    /\ businessInfo # Null
    /\ businessInfo["state"] = <<"N", DQ, "S">>
    /\ localStorageBI # <<>>

\* C2: no sequencing: when a generate request is answered successfully (it
\* moves on to its history refresh), its forecast becomes the displayed one
\* whatever its issue number, also when a later-issued load has already been
\* applied; hence the displayed forecast can be the one of a superseded load.
C2_LastResponseWins ==
    [][\A r \in inflight :
          (r.kind = "forecast" /\ r \notin inflight'
           /\ \E q \in inflight' : q.seq = r.seq /\ q.kind = "fcHistory")
          => (shownSeq' = r.seq /\ forecast' \in PageForecasts)]_vars

\* the displayed forecast belongs to a load issued before one whose response
\* has already been applied
C2_Witness ==
    /\ forecast # Null
    /\ shownSeq # 0
    /\ shownSeq < appliedSeq

\* the clamping, stated apart from the code's Clamp
InRange0To100(x) == 0 <= x.num /\ x.num <= 100 * x.den /\ x.den > 0

\* C3: every value of the smoothed seasonal and festival series lies in [0,100]
C3_SeriesClamped ==
    (view.rendered /\ view.coordinationSeries # Null) =>
        /\ \A i \in DOMAIN view.coordinationSeries.seasonVals :
              InRange0To100(view.coordinationSeries.seasonVals[i])
        /\ \A i \in DOMAIN view.coordinationSeries.festVals :
              InRange0To100(view.coordinationSeries.festVals[i])

\* a series was derived from a forecast with a festival value below 0, one
\* above 100 and a seasonal surge above 100, all inside the first two weeks
C3_Witness ==
    /\ view.rendered /\ view.coordinationSeries # Null
    /\ forecast.forecast_start = 1
    /\ \E i \in DOMAIN Chart(forecast.festival_demands) :
          Chart(forecast.festival_demands)[i].demand_increase = Num(0 - 20)
    /\ \E i \in DOMAIN Chart(forecast.festival_demands) :
          Chart(forecast.festival_demands)[i].demand_increase = Num(150)
    /\ \E i \in DOMAIN Chart(forecast.seasonal_demands) :
          Chart(forecast.seasonal_demands)[i].demand_surge = Num(120)

\* C4: the buckets start at forecast_start, follow each other by 7 days, none
\* starts at or after forecast_end, they cover the window, and a window of
\* exactly k full weeks has k buckets
C4_WeeklyBuckets ==
    (view.rendered /\ view.coordinationSeries # Null) =>
        LET labels == view.coordinationSeries.labels
            n == Len(labels)
            length == forecast.forecast_end - forecast.forecast_start IN
        /\ n >= 1
        /\ labels[1] = forecast.forecast_start
        /\ \A i \in 1..(n - 1) : labels[i + 1] = labels[i] + 7
        /\ \A i \in 1..n : labels[i] < forecast.forecast_end
        /\ labels[n] + 7 >= forecast.forecast_end
        /\ (length % 7 = 0 => n = length \div 7)

\* the week of the bucket that starts on day w, as a set of days
BucketDays(w) == w..(w + 6)

ClampTo100(v) == IF v < 0 THEN 0 ELSE IF v > 100 THEN 100 ELSE v

RECURSIVE SetMax(_)
SetMax(S) ==
    LET x == CHOOSE y \in S : TRUE IN
    IF S = {x} THEN x
    ELSE LET m == SetMax(S \ {x}) IN IF x > m THEN x ELSE m

\* the seasonal value the claim gives to the bucket starting at w
SeasonalValueOf(chart, w) ==
    LET over == {j \in DOMAIN chart :
                    \E d \in BucketDays(w) : chart[j].start <= d /\ d <= chart[j].end} IN
    IF over = {} THEN 0
    ELSE ClampTo100(SetMax({NumberOr0(chart[j].demand_surge) : j \in over}))

\* C5: before smoothing, the seasonal value of a bucket is the largest
\* demand_surge among the season intervals that share a day with the bucket,
\* clamped to [0,100], and 0 when no interval does
C5_SeasonalPerBucket ==
    (view.rendered /\ view.coordinationSeries # Null) =>
        LET labels == view.coordinationSeries.labels
            chart == Chart(forecast.seasonal_demands)
            vals == seasonVals(labels, chart) IN
        /\ Len(vals) = Len(labels)
        /\ \A i \in 1..Len(labels) : vals[i] = SeasonalValueOf(chart, labels[i])

\* the spec's example, shifted to day numbers: window from day 1 over three
\* full weeks and one season [8, 14] with surge 80: the bucket of day 8 holds
\* 80 and its neighbours hold 0
C5_Witness ==
    /\ view.rendered /\ view.coordinationSeries # Null
    /\ forecast.forecast_start = 1 /\ forecast.forecast_end = 22
    /\ Chart(forecast.seasonal_demands) =
          <<[season |-> "Winter", start |-> 8, end |-> 14, demand_surge |-> Num(80)]>>
    /\ seasonVals(view.coordinationSeries.labels, Chart(forecast.seasonal_demands))[1] = 0
    /\ seasonVals(view.coordinationSeries.labels, Chart(forecast.seasonal_demands))[2] = 80
    /\ seasonVals(view.coordinationSeries.labels, Chart(forecast.seasonal_demands))[3] = 0

RECURSIVE SumIncrease(_, _)
SumIncrease(chart, S) ==
    IF S = {} THEN 0
    ELSE LET j == CHOOSE k \in S : TRUE IN
         NumberOr0(chart[j].demand_increase) + SumIncrease(chart, S \ {j})

\* C6: before smoothing, the festival value of a bucket is the sum of the
\* demand_increase of the events dated inside the bucket (a value that is not
\* a number counting 0), clamped to [0,100]
C6_FestivalPerBucket ==
    (view.rendered /\ view.coordinationSeries # Null) =>
        LET labels == view.coordinationSeries.labels
            chart == Chart(forecast.festival_demands)
            vals == festVals(labels, chart) IN
        /\ Len(vals) = Len(labels)
        /\ \A i \in 1..Len(labels) :
              vals[i] = ClampTo100(SumIncrease(chart,
                            {j \in DOMAIN chart : chart[j].date \in BucketDays(labels[i])}))

\* two events of 60 fall in the same week and give 100
C6_Witness ==
    /\ view.rendered /\ view.coordinationSeries # Null
    /\ forecast.forecast_start = 0 /\ forecast.forecast_end = 14
    /\ Len(Chart(forecast.festival_demands)) = 2
    /\ Chart(forecast.festival_demands)[1].demand_increase = Num(60)
    /\ Chart(forecast.festival_demands)[2].demand_increase = Num(60)
    /\ Chart(forecast.festival_demands)[1].date = 7
    /\ Chart(forecast.festival_demands)[2].date = 8
    /\ festVals(view.coordinationSeries.labels, Chart(forecast.festival_demands))[2] = 100

IsEmptyOrMissing(d) == d = Undefined \/ "chart" \notin DOMAIN d \/ d.chart = <<>>

AllZero(series) == \A i \in DOMAIN series : series[i].num = 0 /\ series[i].den > 0

\* C7: with a proper window, an empty or missing festival (seasonal) list is
\* read as the empty list: the series are still derived, the festival
\* (seasonal) series has one value per bucket, all of them zero, and no error
\* is set
C7_EmptyListsGiveZeros ==
    (/\ view.rendered
     /\ forecast.forecast_start < forecast.forecast_end
     /\ (IsEmptyOrMissing(forecast.festival_demands)
         \/ IsEmptyOrMissing(forecast.seasonal_demands))) =>
        /\ view.coordinationSeries # Null
        /\ IsEmptyOrMissing(forecast.festival_demands) =>
              /\ Len(view.coordinationSeries.festVals) = Len(view.coordinationSeries.labels)
              /\ AllZero(view.coordinationSeries.festVals)
        /\ IsEmptyOrMissing(forecast.seasonal_demands) =>
              /\ Len(view.coordinationSeries.seasonVals) = Len(view.coordinationSeries.labels)
              /\ AllZero(view.coordinationSeries.seasonVals)
        /\ error = NoError

\* festival_demands is missing while seasons are present, over two buckets
C7_Witness ==
    /\ view.rendered
    /\ forecast.festival_demands = Undefined
    /\ Chart(forecast.seasonal_demands) # <<>>
    /\ view.coordinationSeries # Null
    /\ Len(view.coordinationSeries.festVals) >= 2

\* C8: a forecast whose window is empty (start = end) is displayed without
\* the weekly derivation and without the timeline section, and without error
C8_ZeroLengthWindow ==
    (view.rendered /\ forecast.forecast_start = forecast.forecast_end) =>
        /\ view.coordinationSeries = Null
        /\ ~view.timelineShown
        /\ view.forecastShown
        /\ error = NoError

\* a forecast with start = end and non-empty lists has been rendered
C8_Witness ==
    /\ view.rendered
    /\ forecast.forecast_start = forecast.forecast_end
    /\ Chart(forecast.festival_demands) # <<>>
    /\ Chart(forecast.seasonal_demands) # <<>>
    /\ view.forecastShown

\* C9: the bar dataset has one value per entry of festival_demands.chart, in
\* order, each the entry's demand_increase as delivered; the labels have the
\* same length; without a chart the dataset is empty
C9_FestivalBars ==
    view.rendered =>
        LET chart == IF IsEmptyOrMissing(forecast.festival_demands)
                     THEN <<>> ELSE forecast.festival_demands.chart IN
        /\ Len(view.barData) = Len(chart)
        /\ Len(view.barLabels) = Len(chart)
        /\ \A i \in 1..Len(chart) : view.barData[i] = chart[i].demand_increase

\* bars were derived from two events, one above 100 and one below 0
C9_Witness ==
    /\ view.rendered
    /\ Len(view.barData) = 2
    /\ view.barData[1] = Num(150)
    /\ view.barData[2] = Num(0 - 20)

\* the step answers the load r with a failure: a generate request leaves
\* without moving on to its history refresh, or a load by id leaves without
\* its forecast being displayed
LoadFailed(r) ==
    /\ r \in inflight /\ r \notin inflight'
    /\ \/ r.kind = "forecast"
          /\ \A q \in inflight' : ~(q.seq = r.seq /\ q.kind = "fcHistory")
       \/ r.kind = "byId" /\ shownSeq' # r.seq

IsMessage(e) == e # NoError /\ e # ""

\* C10 as stated: every failed forecast load ends with an error message set
C10_EveryFailureSurfaced ==
    [][\A r \in inflight : LoadFailed(r) => IsMessage(error')]_vars

\* C10: a failed handleForecast (rejected fetch, body that is not JSON, or a
\* success flag that is not true) ends with error set to a non-empty message;
\* a failed load by id, also the one of the bootstrap, leaves error as it was
C10_GenerateFailureSurfaced ==
    [][\A r \in inflight :
          LoadFailed(r) => IF r.kind = "forecast" THEN IsMessage(error')
                           ELSE error' = error]_vars

\* a generate request has failed without a message of its own and no request
\* is left: the fallback text is displayed
C10_Witness ==
    /\ error \in {"Unknown error", "Network error"}
    /\ inflight = {}
    /\ ~loading

\* the call of fetchData numbered q ends in this step
WnEnds(q) ==
    /\ \E r \in wnFetches : r.seq = q /\ ~r.settled
    /\ \E r \in wnFetches' : r.seq = q /\ r.settled

WnCall(q) == CHOOSE r \in wnFetches' : r.seq = q

WnFailed(r) == "rejected" \in DOMAIN r.weather \/ "rejected" \in DOMAIN r.news

\* C11: weather and news change only in the step in which a call of fetchData
\* ends with both requests answered, and then both take that call's bodies; a
\* call that ends because one request was rejected changes neither, sets error
\* to one non-empty message and passes that message to onError (when the prop
\* is given) exactly once; loading is false when a call ends, either way;
\* onError is never called otherwise
C11_AllOrNothing ==
    [][LET ending == {q \in 1..MaxFetches + 1 : WnEnds(q)} IN
       /\ (wnWeather' # wnWeather \/ wnNews' # wnNews) =>
             \E q \in ending : ~WnFailed(WnCall(q))
       /\ \A q \in ending :
             /\ wnLoading' = FALSE
             /\ IF WnFailed(WnCall(q))
                THEN /\ wnWeather' = wnWeather /\ wnNews' = wnNews
                     /\ wnError' # NoError /\ wnError' # ""
                     /\ wnOnErrorCalls' = IF wnOnError
                                          THEN Append(wnOnErrorCalls, wnError')
                                          ELSE wnOnErrorCalls
                ELSE /\ wnWeather' = WnCall(q).weather /\ wnNews' = WnCall(q).news
                     /\ wnError' = wnError
                     /\ wnOnErrorCalls' = wnOnErrorCalls
       /\ ending = {} => wnOnErrorCalls' = wnOnErrorCalls]_vars

\* a call has ended on the rejection of its news request although its weather
\* request was answered: nothing is displayed, the fallback message was passed
\* to onError once, and loading is over
C11_Witness ==
    /\ \E r \in wnFetches :
          r.settled /\ r.weather \in ResponseData("weather") /\ r.news = Rejected("")
    /\ wnWeather = Null /\ wnNews = Null
    /\ wnError = "Failed to fetch data"
    /\ wnOnErrorCalls = <<"Failed to fetch data">>
    /\ ~wnLoading

\* the rows of the shipment table in the state l (no table while loading)
TableRows(l) == IF l.loading THEN 0 ELSE Len(l.shipments)

\* C12 as stated: after a rejected shipments fetch nothing is unhandled,
\* loading is false and the table has zero rows
C12_RejectedFetchZeroRows ==
    [][logistics'.rejected # logistics.rejected =>
          /\ ~logistics'.unhandled
          /\ ~logistics'.loading
          /\ TableRows(logistics') = 0]_vars

\* C12: a rejected shipments fetch is caught (nothing is left unhandled),
\* loading becomes false and the list of shipments stays as it was, so that
\* the table shows zero rows when no earlier answer had filled it
C12_RejectedFetchKeepsRows ==
    [][logistics'.rejected # logistics.rejected =>
          /\ ~logistics'.unhandled
          /\ ~logistics'.loading
          /\ logistics'.shipments = logistics.shipments
          /\ TableRows(logistics') = Len(logistics.shipments)]_vars

\* on the page that fetches once, the only fetch was rejected: the table is
\* rendered with zero rows
C12_Witness ==
    /\ mounted = "Logistics.jsx"
    /\ logistics.rejected = 1
    /\ logistics.inflight = {}
    /\ ~logistics.loading /\ ~logistics.unhandled
    /\ TableRows(logistics) = 0

\* C13: when the button's handler runs on a form with missing input, it sets
\* the inline validation message, sends no request, and leaves loading false
\* and the previous result as it was
C13_ValidationBeforeRequest ==
    [][(routeTool'.click # routeTool.click /\ MissingInput(routeTool)) =>
          /\ routeTool'.error = ValidationError
          /\ routeTool'.issued = routeTool.issued
          /\ routeTool'.inflight = routeTool.inflight
          /\ routeTool'.loading = FALSE
          /\ routeTool'.optimization = routeTool.optimization
          /\ routeTool'.analysis = routeTool.analysis]_vars

\* PreciseRouteAnalysisSection: an analysis is displayed, the weight has been
\* cleared since, and the button was pressed: the message is shown and
\* nothing is in flight
C13_Witness ==
    /\ mounted = "PreciseRouteAnalysisSection"
    /\ routeTool.analysis # Null
    /\ routeTool.formData.origin # "" /\ routeTool.formData.destination # ""
    /\ routeTool.formData.transport_mode # "" /\ routeTool.formData.weight = ""
    /\ routeTool.error = "Please fill in all fields"
    /\ routeTool.inflight = {} /\ ~routeTool.loading

\* Reading CSV text (RFC 4180): a comma or a newline separates fields when it
\* stands outside quotes, that is, after an even number of double quotes.
\* The positions of the separators of text, in order:
Separators(text) ==
    LET S == {i \in 1..Len(text) :
                 /\ text[i] \in {",", NL}
                 /\ Cardinality({j \in 1..(i - 1) : text[j] = DQ}) % 2 = 0} IN
    [k \in 1..Cardinality(S) |-> CHOOSE i \in S : Cardinality({j \in S : j < i}) = k - 1]

\* the k-th field of text as written, between two separators
RawField(text, k) ==
    LET seps == Separators(text) IN
    SubSeq(text, IF k = 1 THEN 1 ELSE seps[k - 1] + 1,
                 IF k > Len(seps) THEN Len(text) ELSE seps[k] - 1)

\* the content of a quoted field: every doubled quote stands for one, and a
\* single quote inside is an error of the text
RECURSIVE Undouble(_)
Undouble(s) ==
    IF s = <<>> THEN <<>>
    ELSE IF Head(s) = DQ /\ Len(s) >= 2 /\ s[2] = DQ THEN <<DQ>> \o Undouble(Tail(Tail(s)))
    ELSE IF Head(s) = DQ THEN <<"(stray quote)">> \o Undouble(Tail(s))
    ELSE <<Head(s)>> \o Undouble(Tail(s))

\* a field as a reader understands it
ReadField(raw) ==
    IF raw # <<>> /\ raw[1] = DQ
    THEN [text |-> Undouble(SubSeq(raw, 2, Len(raw) - 1)), quoted |-> TRUE,
          closed |-> Len(raw) >= 2 /\ raw[Len(raw)] = DQ]
    ELSE [text |-> raw, quoted |-> FALSE, closed |-> TRUE]

HasSpecial(str) == \E i \in DOMAIN str : str[i] \in {",", DQ, NL}

\* C14: read back as CSV, the exported text has the header row and one row
\* per record, every row with as many fields as there are headers; a string
\* value with a comma, a double quote or a newline comes back unchanged from a
\* quoted field (so its quotes were doubled), a string without them is
\* emitted bare, as it is, and null and undefined give the empty field
C14_CsvQuoting ==
    (mounted = "ExportMenu" /\ csv.text # Undefined) =>
        LET seps == Separators(csv.text)
            H == Len(ExportHeaders) IN
        /\ Len(seps) + 1 = (Len(csv.data) + 1) * H
        /\ \A k \in 1..Len(seps) : (csv.text[seps[k]] = NL) <=> (k % H = 0)
        /\ \A j \in 1..H : RawField(csv.text, j) = <<ExportHeaders[j]>>
        /\ \A k \in 1..Len(csv.data), j \in 1..H :
              LET value == csv.data[k][ExportHeaders[j]]
                  raw == RawField(csv.text, k * H + j) IN
              /\ value.typeof = "string" =>
                    /\ ReadField(raw).text = value.value
                    /\ ReadField(raw).closed
                    /\ ReadField(raw).quoted = HasSpecial(value.value)
              /\ (value.typeof = "undefined"
                  \/ (value.typeof = "object" /\ value.object = Null)) => raw = <<>>

\* two records were exported: the first has an id with a comma and an origin
\* with a newline, the second an id with double quotes
C14_Witness ==
    /\ mounted = "ExportMenu" /\ csv.text # Undefined
    /\ Len(csv.data) = 2
    /\ csv.data[1].ID.value = <<"a", ",", "b">>
    /\ csv.data[1].Origin = [typeof |-> "string", value |-> <<"a", NL, "b">>]
    /\ csv.data[2].ID.value = <<DQ, "a", DQ>>
    /\ csv.data[2].Origin.typeof = "undefined"

\* C15: the context's businessInfo and the localStorage key 'businessInfo'
\* change only in a step that is a Settings form submission, which writes the
\* submitted form to both; every other step of any component (form edits,
\* navigation, reloads, requests and their answers) leaves both as they were.
C15_SingleWriter ==
    [][(businessInfo' # businessInfo \/ localStorageBI' # localStorageBI)
          => /\ settingsOpen
             /\ FormValid
             /\ businessInfo' = form
             /\ localStorageBI' = JSONstringify(form)
             /\ saved']_vars

\* the form has been edited after a save and holds a submittable profile that
\* differs from the saved one, which is still in the context and the storage
C15_Witness ==
    /\ mounted = "Settings"
    /\ settingsOpen
    /\ ~saved
    /\ FormValid
    /\ businessInfo # Null
    /\ form # businessInfo
    /\ businessInfo # SampleProfile
    /\ localStorageBI = JSONstringify(businessInfo)

\* the page component the specification maps each id to
PageTable ==
    [id \in PageIds |->
        CASE id = "dashboard" -> "Dashboard"
          [] id = "demand-forecasting" -> "DemandForecasting"
          [] id = "inventory" -> "InventoryManagement"
          [] id = "logistics" -> "Logistics"
          [] id = "scenarios" -> "WhatIfScenarios"
          [] id = "reports" -> "Reports"
          [] id = "settings" -> "Settings"]

\* C18: whatever the sidebar selections, a run of Content's effect leaves
\* currentKey equal to activeComponent (and the effect is due exactly while
\* the two differ), the element rendered as the current page is the one the
\* table maps currentKey to (Dashboard for a key outside the table), and
\* prevKey never equals currentKey.
C18_PageRouting ==
    /\ [][nav'.currentKey # nav.currentKey
            => /\ nav'.currentKey = nav'.activeComponent
               /\ nav'.prevKey = nav.currentKey]_vars
    /\ [](mounted = "AppContent" /\ nav.activeComponent # nav.currentKey
            => ENABLED ContentEffect)
    /\ [](nav.current = IF nav.currentKey \in DOMAIN PageTable
                        THEN PageTable[nav.currentKey] ELSE "Dashboard")
    /\ [](nav.prevKey # nav.currentKey)

\* after several selections the effect has run: Reports is the current page
\* and What-if Scenarios the page that was left
C18_Witness ==
    /\ nav.activeComponent = "reports"
    /\ nav.currentKey = "reports"
    /\ nav.prevKey = "scenarios"
    /\ nav.current = "Reports"
    /\ nav.leaving = "WhatIfScenarios"

\* the forecast requests a step issues
NewForecastRequests == {r \in inflight' \ inflight : r.kind = "forecast"}

\* C16: every POST /api/demand/forecast carries the saved business profile
\* and, as forecastPeriod, the period selected for that request (the navbar's
\* period for Generate Forecast, the page's forecastPeriod for Retry); no
\* forecast request is issued without a business profile.
C16_ForecastBody ==
    /\ [][\A r \in NewForecastRequests :
             /\ businessInfo # Null
             /\ r.body.profile = businessInfo
             /\ r.body.forecastPeriod \in {dfPeriod, forecastPeriod}
             /\ dfLoading => r.body.forecastPeriod = forecastPeriod
             /\ (loading \/ forecast # Null) => r.body.forecastPeriod = dfPeriod]_vars

\* the request r is a forecast generation that succeeds in this step: it goes
\* on as the history refresh q, which keeps the forecastId of the answer
Generated(r, q) ==
    /\ r \in inflight /\ r.kind = "forecast"
    /\ q \in inflight' /\ q.kind = "fcHistory" /\ q.seq = r.seq

\* the request r is a load by id that succeeds in this step
LoadedById(r) ==
    /\ r \in inflight /\ r.kind = "byId" /\ r \notin inflight'
    /\ shownSeq' = r.seq

\* the request r is a forecast generation or a load by id that fails in this step
FailedLoad(r) ==
    /\ r \in inflight /\ r.kind \in {"forecast", "byId"} /\ r \notin inflight'
    /\ ~LoadedById(r)
    /\ \A q \in inflight' : ~Generated(r, q)

C19_RequiredFieldGating ==
    [][\A r \in shipmentForm'.inflight \ shipmentForm.inflight :
          LET fd == shipmentForm.formData IN
          /\ fd.destination # ""
          /\ fd.selectedMode # ""
          /\ \A i \in 1..Len(fd.items) : fd.items[i].description # ""
          /\ ~shipmentForm.loading
          /\ shipmentForm.inflight = {}
          /\ r.payload.destination = fd.destination
          /\ r.payload.transport_mode = fd.selectedMode
          /\ r.payload.items = fd.items]_vars

\* after a rejected creation the form, now with two described items, has
\* issued a second request
C19_Witness ==
    /\ shipmentForm.loading
    /\ shipmentForm.issued = 2
    /\ shipmentForm.error = NoError
    /\ \E r \in shipmentForm.inflight :
          /\ r.seq = 2
          /\ Len(r.payload.items) = 2
          /\ r.payload.items_count = 2

\* sm is the centered moving average of window 3 of pre, with truncated
\* edges: sm[i] is the mean of the values of pre at the indices among i - 1,
\* i, i + 1 that exist (two at each end, one when pre has a single value)
IsMovingAverage3(pre, sm) ==
    LET n == Len(pre) IN
    /\ Len(sm) = n
    /\ \A i \in 1..n :
          LET around == {j \in {i - 1, i, i + 1} : j >= 1 /\ j <= n}
              total == (IF i - 1 >= 1 THEN pre[i - 1] ELSE 0) + pre[i]
                       + (IF i + 1 <= n THEN pre[i + 1] ELSE 0) IN
          /\ Cardinality(around) = (IF n = 1 THEN 1 ELSE IF i \in {1, n} THEN 2 ELSE 3)
          /\ sm[i].den > 0
          /\ sm[i].num * Cardinality(around) = total * sm[i].den

\* the pre-smoothing series of the displayed forecast
PreSeason == seasonVals(WeeksFrom(forecast.forecast_start, forecast.forecast_end),
                        Chart(forecast.seasonal_demands))
PreFest == festVals(WeeksFrom(forecast.forecast_start, forecast.forecast_end),
                    Chart(forecast.festival_demands))

\* C20: both smoothed series of the rendered chart are the centered moving
\* average of window 3, with truncated edges, of their pre-smoothing series,
\* and have its length.
C20_SmoothingIsMovingAverage ==
    (view.rendered /\ view.coordinationSeries # Null)
        => /\ IsMovingAverage3(PreSeason, view.coordinationSeries.seasonVals)
           /\ IsMovingAverage3(PreFest, view.coordinationSeries.festVals)

\* a rendered chart of at least three weeks whose season series has a peak
\* that smoothing lowers, with an edge value taken over two weeks
C20_Witness ==
    /\ view.rendered /\ view.coordinationSeries # Null
    /\ Len(PreSeason) >= 3
    /\ PreSeason[1] = 0 /\ PreSeason[2] > 0 /\ PreSeason[3] = 0
    /\ view.coordinationSeries.seasonVals[1] = Frac(PreSeason[2], 2)
    /\ view.coordinationSeries.seasonVals[2] = Frac(PreSeason[2], 3)

\* forecast_date descending, ties by larger id first
IsSortedHistory(h) ==
    \A i, j \in 1..Len(h) :
       i < j => \/ h[i].forecast_date > h[j].forecast_date
                \/ h[i].forecast_date = h[j].forecast_date /\ h[i].id >= h[j].id

\* the request q is the load by id the bootstrap r goes on with
BootLoad(r, q) == q \in inflight' /\ q.seq = r.seq /\ q.kind = "byId" /\ q.boot

\* C21: the mount effect fetches the history; the answered history is stored
\* in date order (ties by larger id first) and the bootstrap goes on to load
\* the forecast of the stored lastForecastId, if any, else of the first
\* entry; a bootstrap load that succeeds displays its forecast; the step that
\* ends the bootstrap leaves bootstrapped true and loading false; and when
\* the effect runs and requests are answered, the bootstrap does end.
C21_RestoreOnMount ==
    /\ [][\A r \in inflight : (r.boot /\ r \notin inflight') =>
             LET want == IF lastForecastId # NoItem THEN lastForecastId
                         ELSE IF history' # <<>> THEN IdStr(history'[1].id)
                         ELSE NoItem IN
             /\ r.kind = "bootHistory" =>
                   /\ IsSortedHistory(history')
                   /\ (history' # history /\ history' # <<>>) =>
                         \E q \in inflight' : BootLoad(r, q) /\ q.id = want
                   /\ \A q \in inflight' : BootLoad(r, q) =>
                         q.id = want /\ want # NoItem /\ selectedId' = want
             /\ (r.kind = "byId" /\ shownSeq' = r.seq) => forecast' # Null
             /\ (\A q \in inflight' : ~BootLoad(r, q)) => bootstrapped' /\ ~loading']_vars
    /\ [][~effectsRan /\ effectsRan' =>
             \E q \in inflight' : q.kind = "bootHistory" /\ q.boot /\ loading']_vars
    /\ <>[]bootstrapped

\* the bootstrap has ended with the forecast of the stored id displayed,
\* although the history, answered in another order, lists a more recent one
C21_Witness ==
    /\ bootstrapped /\ ~loading
    /\ forecast # Null
    /\ shownSeq = 1
    /\ Len(history) = 2
    /\ history[1].forecast_date > history[2].forecast_date
    /\ selectedId = IdStr(history[2].id)
    /\ lastForecastId = selectedId

\* C22: no sequencing in Reports: whichever request is answered, and
\* whatever the report type selected by then, its report (or null) becomes
\* reportData and loading becomes false, also while a later request is still
\* pending; hence the report of a superseded type can be the one displayed.
C22_OlderReportAppliedLast ==
    [][\A r \in reports.inflight \ reports'.inflight :
          /\ ~reports'.loading
          /\ reports'.reportData # reports.reportData
                => reports'.reportData \in {Null, [reportFor |-> r.type]}
          /\ reports'.reportData # Null => reports'.reportData.reportFor = r.type]_vars

\* both requests have been answered, the older one last: the report shown
\* was produced for the type that was left
C22_Witness ==
    /\ reports.issued = 2
    /\ reports.inflight = {}
    /\ ~reports.loading
    /\ reports.reportType = "sales"
    /\ reports.reportData = [reportFor |-> "executive-summary"]

\* C23: when currentKey follows activeComponent, prevKey is set to the page
\* that is left, and once the transition is over (no effect is due and no
\* timeout is pending) prevKey is null again: only the current page is mounted.
C23_TransitionCompletes ==
    /\ [][nav'.currentKey # nav.currentKey => nav'.prevKey = nav.currentKey]_vars
    /\ []((mounted = "AppContent" /\ nav.effectRan
           /\ nav.activeComponent = nav.currentKey /\ ~nav.timer)
             => nav.prevKey = NoItem /\ nav.leaving = NoItem)

\* a handleForecast call is between its 'loading' and its 'idle' event
Generating(r) == r \in inflight /\ r.kind \in {"forecast", "fcHistory"}

\* C24: handleForecast dispatches 'loading' when it issues its request (the
\* navbar's dfLoading becomes true); every call reaches its finally block,
\* however its request is answered (again and again no call is left between
\* the two events); and the step that dispatches 'idle' leaves loading,
\* overlayLoading and dfLoading false: Generate Forecast is enabled again.
C24_LoadingAlwaysEnds ==
    /\ [][\A r \in inflight' : (Generating(r)' /\ ~(\E q \in inflight : q.seq = r.seq))
             => dfLoading']_vars
    /\ [][\A r \in inflight : (Generating(r) /\ r \notin inflight'
                               /\ \A q \in inflight' : q.seq # r.seq)
             => ~loading' /\ ~overlayLoading' /\ ~dfLoading']_vars
    /\ []<>(\A r \in inflight : ~Generating(r))

\* a generate request was rejected and its call has ended: the error is
\* shown and all three flags are down
C24_Witness ==
    /\ error = "Network error"
    /\ nextSeq > 2
    /\ \A r \in inflight : ~Generating(r)
    /\ ~loading /\ ~overlayLoading /\ ~dfLoading

\* C25: in every state in which a request of handleForecast is in flight, the
\* navbar's dfLoading is true and the page's loading or overlayLoading is true.
C25_GenerateBlockedWhileGenerating ==
    (\E r \in inflight : r.kind = "forecast")
        => dfLoading /\ (loading \/ overlayLoading)

\* C26: a forecast requested while one is displayed is requested with the
\* overlay: overlayLoading is set and the skeleton flag loading is not; a
\* forecast requested while none is displayed sets loading.
C26_OverlayOnRegeneration ==
    [][\A r \in NewForecastRequests :
          IF forecast # Null THEN overlayLoading' /\ ~loading'
          ELSE loading']_vars

\* C27: while a forecast is displayed, forecastPeriod is the period the
\* displayed forecast was requested with. Stepwise: the label does not change
\* while the same forecast stays displayed, and when the answer of a generate
\* request becomes the displayed forecast the label is that request's period.
C27_PeriodLabelMatches ==
    [][/\ (forecast # Null /\ forecast' = forecast /\ shownSeq' = shownSeq)
             => forecastPeriod' = forecastPeriod
       /\ \A r \in inflight :
             (r.kind = "forecast" /\ shownSeq' = r.seq /\ shownSeq # r.seq)
                => forecastPeriod' = r.period]_vars

\* C28: when the last request in flight ends and a forecast is displayed,
\* selectedId is the id of the displayed forecast: the forecastId of the
\* generate request whose answer is displayed, or the id of the load by id
\* whose answer is displayed.
C28_SelectionMatches ==
    [][\A r \in inflight :
          (inflight' = {} /\ forecast' # Null)
             => /\ (r.kind = "fcHistory" /\ r.id # NoItem /\ shownSeq' = r.seq)
                      => selectedId' = r.id
                /\ (r.kind = "byId" /\ shownSeq' = r.seq)
                      => selectedId' = r.id]_vars

\* C29: the points list never holds more than two points, a click with two
\* points selected restarts the list with the clicked point, and the estimate
\* is requested only with two points selected, its names and coordinates
\* being those of the two points.
C29_EstimateNeedsBothPoints ==
    [][LET points == mapSelector.points
           h == mapSelector'.pending IN
       /\ Len(mapSelector'.points) <= 2
       /\ (Len(points) = 2 /\ h.kind = "geocode" /\ mapSelector.pending.kind = "none")
             => mapSelector'.points = <<h.latlng>>
       /\ (h.kind = "estimate" /\ mapSelector.pending.kind # "estimate")
             => /\ Len(points) = 2
                /\ h.body.origin \in GeocodeNames(points[1])
                /\ h.body.destination \in GeocodeNames(points[2])
                /\ h.body.originCoords = points[1]
                /\ h.body.destinationCoords = points[2]]_vars

\* the demand increases of the festivals with index in K, added up
RECURSIVE IncOver(_, _)
IncOver(festivals, K) ==
    IF K = {} THEN 0
    ELSE LET k == CHOOSE x \in K : TRUE IN
         NumberOr0(festivals[k].demand_increase) + IncOver(festivals, K \ {k})

\* the indices of the festivals dated in the days a..b
DatedIn(festivals, a, b) ==
    {k \in 1..Len(festivals) : festivals[k].date >= a /\ festivals[k].date <= b}

\* C30: the weekly buckets start at forecast_start and follow one another
\* without gap or overlap; every festival dated in [forecast_start,
\* forecast_end) lies in exactly one bucket, and the pre-smoothing festival
\* value of a bucket is the sum of the demand increases of the festivals in
\* it; labels, seasonal, festival and coordination series all have the length
\* of the list of buckets.
C30_FestivalCountedOnce ==
    (view.rendered /\ view.coordinationSeries # Null) =>
       LET cs == view.coordinationSeries
           weeks == WeeksFrom(forecast.forecast_start, forecast.forecast_end)
           festivals == Chart(forecast.festival_demands)
           raw == festValsRaw(weeks, festivals) IN
       /\ weeks[1] = forecast.forecast_start
       /\ \A i \in 1..(Len(weeks) - 1) : weeks[i + 1] = (weeks[i] + Week - 1) + 1
       /\ \A k \in DatedIn(festivals, forecast.forecast_start, forecast.forecast_end - 1) :
             Cardinality({i \in 1..Len(weeks) :
                             k \in DatedIn(festivals, weeks[i], weeks[i] + Week - 1)}) = 1
       /\ \A i \in 1..Len(weeks) :
             raw[i] = IncOver(festivals, DatedIn(festivals, weeks[i], weeks[i] + Week - 1))
       /\ Len(cs.labels) = Len(weeks)
       /\ Len(cs.seasonVals) = Len(weeks)
       /\ Len(cs.festVals) = Len(weeks)
       /\ Len(cs.coordIndex) = Len(weeks)

\* a festival with a demand increase is dated on the first day of the second
\* bucket and counted there
C30_Witness ==
    /\ view.rendered /\ view.coordinationSeries # Null
    /\ Len(view.coordinationSeries.labels) >= 2
    /\ \E k \in 1..Len(Chart(forecast.festival_demands)) :
          /\ Chart(forecast.festival_demands)[k].date = view.coordinationSeries.labels[2]
          /\ NumberOr0(Chart(forecast.festival_demands)[k].demand_increase) > 0
          /\ Chart(forecast.festival_demands)[k].date < forecast.forecast_end

====
